---------------------------- MODULE Spec2Model ----------------------------
(***************************************************************************)
(* A model of sbom-check.py: the PURL parser parse_purl, the retrying       *)
(* session, the registry resolvers (get_*_release_date,                    *)
(* get_latest_*_version), the version helpers (_is_semver_like,            *)
(* compare_versions), the two-level cache and the two-phase worker-pool    *)
(* orchestrator analyze_sbom.                                              *)
(*                                                                         *)
(* Strings are sequences of one-character strings, so that prefix tests,   *)
(* the version regular expression and the dotted comparison are computed   *)
(* as the code computes them.  An optional value (Python None or a value)  *)
(* is the empty set or a singleton set.  A datetime is a record            *)
(* [t |-> ticks, aware |-> has a tzinfo]; a day has TicksPerDay ticks.     *)
(***************************************************************************)
EXTENDS Integers, Sequences, FiniteSets

(***************************************************************************)
(* Bounds of the model.                                                    *)
(***************************************************************************)
TicksPerDay == 2
MaxAge == 1
MaxComps == 2
MaxWorkers == 2
MaxRuns == 2
\* the longest string given to _is_semver_like and to compare_versions
MaxLen == 4
MaxVerLen == 3

None == {}
Some(x) == {x}
The(o) == CHOOSE x \in o : TRUE

(***************************************************************************)
(* Strings.                                                                *)
(***************************************************************************)
Digits == {"0", "1", "2", "3", "4", "5", "6", "7", "8", "9"}
LowerCase ==
    << "a", "b", "c", "d", "e", "f", "g", "h", "i", "j", "k", "l", "m",
       "n", "o", "p", "q", "r", "s", "t", "u", "v", "w", "x", "y", "z" >>
UpperCase ==
    << "A", "B", "C", "D", "E", "F", "G", "H", "I", "J", "K", "L", "M",
       "N", "O", "P", "Q", "R", "S", "T", "U", "V", "W", "X", "Y", "Z" >>
Letters == { LowerCase[i] : i \in DOMAIN LowerCase }
Capitals == { UpperCase[i] : i \in DOMAIN UpperCase }
DigitVal(c) ==
    CASE c = "0" -> 0 [] c = "1" -> 1 [] c = "2" -> 2 [] c = "3" -> 3
      [] c = "4" -> 4 [] c = "5" -> 5 [] c = "6" -> 6 [] c = "7" -> 7
      [] c = "8" -> 8 [] c = "9" -> 9

StartsWith(s, p) == Len(s) >= Len(p) /\ SubSeq(s, 1, Len(p)) = p

\* str.split(sep): the segments of s between the occurrences of sep
RECURSIVE Split(_, _)
Split(s, sep) ==
    IF \A i \in 1..Len(s) : s[i] # sep
    THEN <<s>>
    ELSE LET k == CHOOSE i \in 1..Len(s) :
                      s[i] = sep /\ \A j \in 1..(i - 1) : s[j] # sep
         IN  <<SubSeq(s, 1, k - 1)>> \o Split(SubSeq(s, k + 1, Len(s)), sep)

\* str.split(sep, 1): at most one split, at the first occurrence of sep
SplitOnce(s, sep) ==
    IF \A i \in 1..Len(s) : s[i] # sep
    THEN <<s>>
    ELSE LET k == CHOOSE i \in 1..Len(s) :
                      s[i] = sep /\ \A j \in 1..(i - 1) : s[j] # sep
         IN  <<SubSeq(s, 1, k - 1), SubSeq(s, k + 1, Len(s))>>

\* sep.join(parts)
RECURSIVE Join(_, _)
Join(parts, sep) ==
    IF Len(parts) = 0 THEN <<>>
    ELSE IF Len(parts) = 1 THEN parts[1]
    ELSE parts[1] \o <<sep>> \o Join(Tail(parts), sep)

\* str.lower()
lower(s) ==
    [i \in 1..Len(s) |->
       IF s[i] \in Capitals
       THEN LowerCase[CHOOSE k \in DOMAIN UpperCase : UpperCase[k] = s[i]]
       ELSE s[i]]

\* the ecosystem tags the code tests pkg_type against
Maven == <<"m", "a", "v", "e", "n">>
Npm == <<"n", "p", "m">>
\* pypi, npm, cocoapods, cargo: the ecosystems resolved by package name
NameEcosystems ==
    { <<"p", "y", "p", "i">>, Npm,
      <<"c", "o", "c", "o", "a", "p", "o", "d", "s">>,
      <<"c", "a", "r", "g", "o">> }

NameLib == <<"l", "i", "b">>

V100 == <<"1", ".", "0", ".", "0">>
V200 == <<"2", ".", "0", ".", "0">>
\* a version ahead of every version the registries report
V300 == <<"3", ".", "0", ".", "0">>
VNoisy == <<"m", "5", ".", "1", "f">>

GroupExample == <<"o", "r", "g", ".", "x">>
GroupGoogle == <<"c", "o", "m", ".", "g", "o", "o", "g", "l", "e", ".", "x">>

(***************************************************************************)
(* _is_semver_like: ^[0-9]+(\.[0-9]+)*(?:[-+][A-Za-z0-9\.\-]+)?$           *)
(***************************************************************************)
SuffixChars == Digits \cup Letters \cup Capitals \cup {".", "-"}

DigitDotGroups(h) ==
    /\ Len(h) > 0
    /\ \A i \in 1..Len(h) : h[i] \in Digits \cup {"."}
    /\ LET segs == Split(h, ".")
       IN  \A i \in 1..Len(segs) : Len(segs[i]) > 0

_is_semver_like(v) ==
    /\ v # None
    /\ LET raw == The(v)
           \* re.match: '$' matches at the end of the string and also just
           \* before a newline that ends it
           s == IF Len(raw) > 0 /\ raw[Len(raw)] = "\n"
                THEN SubSeq(raw, 1, Len(raw) - 1) ELSE raw
           n == Len(s)
           marks == {i \in 1..n : s[i] \in {"-", "+"}}
           k == IF marks = {} THEN n + 1
                ELSE CHOOSE i \in marks : \A j \in marks : i <= j
       IN  /\ DigitDotGroups(SubSeq(s, 1, k - 1))
           /\ k <= n =>
                 /\ k < n
                 /\ \A i \in (k + 1)..n : s[i] \in SuffixChars

(***************************************************************************)
(* compare_versions.  Some(TRUE) is newer, Some(FALSE) not newer, None     *)
(* unknown.  The strong parsers (packaging.version, semver) accept a       *)
(* MAJOR.MINOR.PATCH string of digits; on every other string of this       *)
(* model's version universe they raise and the dotted fallback decides.    *)
(***************************************************************************)
RECURSIVE DigitsToInt(_)
DigitsToInt(ds) ==
    IF Len(ds) = 0 THEN 0
    ELSE 10 * DigitsToInt(SubSeq(ds, 1, Len(ds) - 1)) + DigitVal(ds[Len(ds)])

OnlyDigits(p) == SelectSeq(p, LAMBDA ch : ch \in Digits)

\* a faulty variant of norm: only the leading run of digits of a segment counts
normLeadingRun(v) ==
    LET segs == Split(v, ".")
        run(p) == IF \A i \in 1..Len(p) : p[i] \in Digits THEN p
                  ELSE SubSeq(p, 1, (CHOOSE i \in 1..Len(p) :
                            p[i] \notin Digits
                            /\ \A j \in 1..(i - 1) : p[j] \in Digits) - 1)
    IN  [i \in 1..Len(segs) |-> DigitsToInt(run(segs[i]))]

\* norm(v): int(''.join(ch for ch in p if ch.isdigit()) or 0) per segment
norm(v) ==
    LET segs == Split(v, ".")
    IN  [i \in 1..Len(segs) |-> DigitsToInt(OnlyDigits(segs[i]))]

StrongParses(v) ==
    /\ DigitDotGroups(v)
    /\ Len(Split(v, ".")) = 3

Min(a, b) == IF a <= b THEN a ELSE b

\* a faulty variant of DottedNewer: equal sequences count as newer
DottedNewerOrSame(lat, cur) ==
    LET m == Min(Len(lat), Len(cur))
        diff == {i \in 1..m : lat[i] # cur[i]}
    IN  IF diff # {}
        THEN LET d == CHOOSE i \in diff : \A j \in diff : i <= j
             IN  lat[d] > cur[d]
        ELSE Len(lat) >= Len(cur)

\* zip(lat, cur): the first differing position decides, else the length
DottedNewer(lat, cur) ==
    LET m == Min(Len(lat), Len(cur))
        diff == {i \in 1..m : lat[i] # cur[i]}
    IN  IF diff # {}
        THEN LET d == CHOOSE i \in diff : \A j \in diff : i <= j
             IN  lat[d] > cur[d]
        ELSE Len(lat) > Len(cur)

\* semver.compare(latest, current) > 0 on two parsed versions
StrongNewer(lat, cur) == DottedNewer(norm(lat), norm(cur))

\* PackagingVersion(v) succeeds.  On strings of digits, "." and the letter a
\* a version is a release of dot-separated numbers, optionally followed by
\* the pre-release tag a with an optional "." before and after it and an
\* optional number; the other tags and the post, dev and local parts need
\* other characters
PackagingParses(v) ==
    LET others == { i \in 1..Len(v) : v[i] \notin Digits \cup {"."} }
    IN  IF others = {} THEN DigitDotGroups(v)
        ELSE LET i == CHOOSE j \in others : \A h \in others : j <= h
                 head == SubSeq(v, 1, i - 1)
                 release == IF head # <<>> /\ head[Len(head)] = "."
                            THEN SubSeq(head, 1, Len(head) - 1) ELSE head
                 tail == SubSeq(v, i + 1, Len(v))
                 number == IF tail # <<>> /\ tail[1] = "." THEN Tail(tail) ELSE tail
             IN  /\ v[i] = "a"
                 /\ DigitDotGroups(release)
                 /\ \A j \in 1..Len(number) : number[j] \in Digits

\* the key PackagingVersion objects are ordered by: the release numbers
\* without trailing zeros, and the pre-release number (None for a final
\* release, which sorts after every pre-release)
PackagingKey(v) ==
    LET others == { i \in 1..Len(v) : v[i] = "a" }
        i == IF others = {} THEN Len(v) + 1
             ELSE CHOOSE j \in others : \A h \in others : j <= h
        numbers == norm(SubSeq(v, 1, i - 1))
        head == IF i > 1 /\ i <= Len(v) /\ v[i - 1] = "."
                THEN SubSeq(numbers, 1, Len(numbers) - 1) ELSE numbers
        nonzero == { j \in 1..Len(head) : head[j] # 0 }
        last == IF nonzero = {} THEN 0
                ELSE CHOOSE j \in nonzero : \A h \in nonzero : h <= j
    IN  [release |-> SubSeq(head, 1, last),
         pre |-> IF others = {} THEN None
                 ELSE Some(DigitsToInt(OnlyDigits(SubSeq(v, i + 1, Len(v)))))]

\* PackagingVersion(latest) > PackagingVersion(current)
PackagingNewer(lat, cur) ==
    LET kl == PackagingKey(lat)
        kc == PackagingKey(cur)
    IN  IF kl.release # kc.release THEN DottedNewer(kl.release, kc.release)
        ELSE /\ kc.pre # None
             /\ kl.pre = None \/ The(kl.pre) > The(kc.pre)

\* a faulty variant of compare_versions: two strings without any digit are
\* not compared
compare_versions_digits_only(current, latest, pkg_type) ==
    IF current = None \/ latest = None THEN None
    ELSE IF Len(The(current)) = 0 \/ Len(The(latest)) = 0 THEN None
    ELSE IF OnlyDigits(The(current)) = <<>> /\ OnlyDigits(The(latest)) = <<>>
    THEN None
    ELSE Some(DottedNewer(norm(The(latest)), norm(The(current))))

compare_versions(current, latest, pkg_type) ==
    IF current = None \/ latest = None THEN None
    ELSE IF Len(The(current)) = 0 \/ Len(The(latest)) = 0 THEN None
    ELSE IF /\ pkg_type = <<"p", "y", "p", "i">>
            /\ PackagingParses(The(latest)) /\ PackagingParses(The(current))
    THEN Some(PackagingNewer(The(latest), The(current)))
    ELSE IF StrongParses(The(latest)) /\ StrongParses(The(current))
    THEN Some(StrongNewer(The(latest), The(current)))
    ELSE Some(DottedNewer(norm(The(latest)), norm(The(current))))


(***************************************************************************)
(* Dates.  isoformat / fromisoformat are the text form kept in the cache   *)
(* file: seconds since the epoch plus the UTC offset suffix, which is      *)
(* absent for a naive datetime.                                            *)
(***************************************************************************)
Now == TicksPerDay * (MaxAge + 3)

\* a faulty variant of fromisoformat: the time of day is lost
FromIsoformatDateOnly(s) ==
    [t |-> (s.text \div TicksPerDay) * TicksPerDay, aware |-> s.offset # ""]

isoformat(d) == [text |-> d.t, offset |-> IF d.aware THEN "+00:00" ELSE ""]
fromisoformat(s) == [t |-> s.text, aware |-> s.offset # ""]

\* rd.replace(tzinfo=timezone.utc) when rd.tzinfo is None (lines 916-917)
AsUtc(rd) == IF rd = None THEN None ELSE Some([t |-> The(rd).t, aware |-> TRUE])

\* a faulty variant of AgeDays: the age rounded to the nearest day instead of floored
AgeDaysRounded(now, rd) == (2 * (now - rd.t) + TicksPerDay) \div (2 * TicksPerDay)

\* (now - rd).days : timedelta.days is the floor of the duration in days
AgeDays(now, rd) == (now - rd.t) \div TicksPerDay

(***************************************************************************)
(* parse_purl (lines 78-109).  The result is None or a dict: for maven     *)
(* {type, version, group, artifact}, for every other type {type, version,  *)
(* name}.                                                                  *)
(***************************************************************************)
PkgPrefix == <<"p", "k", "g", ":">>

\* a faulty variant of MavenParts: the compact group:artifact form is not split
MavenPartsUnsplit(parts) ==
    IF Len(parts) >= 3
    THEN [group |-> parts[2], artifact |-> parts[3]]
    ELSE IF Len(parts) = 2
    THEN [group |-> <<>>, artifact |-> parts[2]]
    ELSE [group |-> <<>>, artifact |-> <<>>]

\* lines 88-102: group and artifact of the path segments of a maven PURL
MavenParts(parts) ==
    IF Len(parts) >= 3
    THEN [group |-> parts[2], artifact |-> parts[3]]
    ELSE IF Len(parts) = 2
    THEN LET comp == parts[2]
         IN  IF \E i \in 1..Len(comp) : comp[i] = ":"
             THEN LET ga == SplitOnce(comp, ":")
                  IN  [group |-> ga[1], artifact |-> ga[2]]
             ELSE [group |-> <<>>, artifact |-> comp]
    ELSE [group |-> <<>>, artifact |-> <<>>]

parse_purl(purl) ==
    IF Len(purl) = 0 \/ ~StartsWith(purl, PkgPrefix)
    THEN None
    ELSE LET halves == SplitOnce(SubSeq(purl, 5, Len(purl)), "@")
         IN  IF Len(halves) # 2
             THEN \* the unpacking raises ValueError, which is caught
                  None
             ELSE LET main_part == halves[1]
                      version == Split(Split(halves[2], "?")[1], "#")[1]
                      parts == Split(main_part, "/")
                      pkg_type == parts[1]
                  IN  IF pkg_type = Maven
                      THEN Some([type |-> pkg_type, version |-> version,
                                 group |-> MavenParts(parts).group,
                                 artifact |-> MavenParts(parts).artifact])
                      ELSE Some([type |-> pkg_type, version |-> version,
                                 \* '/'.join(parts[1:]) if len(parts) > 1 else ''
                                 name |-> IF Len(parts) > 1
                                          THEN Join(Tail(parts), "/") ELSE <<>>])

(***************************************************************************)
(* Components, cache keys and cache entries.                               *)
(***************************************************************************)
Coord(type, group, name) == [type |-> type, group |-> group, name |-> name]
CoordExample == Coord(Maven, GroupExample, NameLib)
CoordGoogle == Coord(Maven, GroupGoogle, NameLib)
CoordNpm == Coord(Npm, <<>>, <<"p", "k", "g">>)

Item(c, v) == [coord |-> c, version |-> v]
Items ==
    { Item(CoordExample, V100), Item(CoordExample, V200),
      Item(CoordGoogle, V100), Item(CoordNpm, V100) }

\* the purl member of a component: pkg:type/[group/]name@version
Purl(item) ==
    PkgPrefix \o item.coord.type \o <<"/">>
      \o (IF item.coord.type = Maven THEN item.coord.group \o <<"/">> ELSE <<>>)
      \o item.coord.name \o <<"@">> \o item.version

Components == { Purl(item) : item \in Items }

\* an SBOM is the sequence of its components' PURLs
Sboms == UNION { [1..n -> Components] : n \in 1..MaxComps }

\* SBOMs with a component whose version is ahead of the latest version its
\* registry reports (a pre-release build, or a registry that lags behind)
SbomsAhead ==
    { s \in UNION { [1..n -> Components \cup {Purl(Item(CoordExample, V300))}] :
                       n \in 1..MaxComps } :
        \E i \in DOMAIN s : s[i] = Purl(Item(CoordExample, V300)) }

\* components that fetch_release or parse_purl treats specially: a maven
\* version of 'unspecified' in some capitalisation, an empty version, and a
\* purl member that is not a PURL
VUnspecified == <<"U", "n", "s", "p", "e", "c", "i", "f", "i", "e", "d">>
NotAPurl == <<"n", "o", "t", "-", "a", "-", "p", "u", "r", "l">>
SpecialComponents ==
    { Purl(Item(CoordExample, VUnspecified)), Purl(Item(CoordExample, <<>>)),
      NotAPurl }
SbomsWithSpecial ==
    { s \in UNION { [1..n -> Components \cup SpecialComponents] : n \in 1..MaxComps } :
        \E i \in DOMAIN s : s[i] \in SpecialComponents }

\* the work item of a parsed component: (purl, parsed, pkg_type), of which the
\* phases read the type, the group and artifact or the name, and the version
WorkItem(parsed) ==
    IF parsed.type = Maven
    THEN Item(Coord(parsed.type, parsed.group, parsed.artifact), parsed.version)
    ELSE Item(Coord(parsed.type, <<>>, parsed.name), parsed.version)

\* a faulty variant of WorkItems: the first PURL that does not parse ends the loop
RECURSIVE WorkItemsUntilMalformed(_)
WorkItemsUntilMalformed(components) ==
    IF components = <<>> THEN <<>>
    ELSE LET purl == Head(components)
             parsed == parse_purl(purl)
         IN  IF Len(purl) = 0 \/ parsed = None THEN <<>>
             ELSE <<WorkItem(The(parsed))>>
                    \o WorkItemsUntilMalformed(Tail(components))

\* lines 863-879: a component without purl or whose purl does not parse is
\* skipped with `continue`
RECURSIVE WorkItems(_)
WorkItems(components) ==
    IF components = <<>> THEN <<>>
    ELSE LET purl == Head(components)
             parsed == parse_purl(purl)
             rest == WorkItems(Tail(components))
         IN  IF Len(purl) = 0 THEN rest
             ELSE IF parsed = None THEN rest
             ELSE <<WorkItem(The(parsed))>> \o rest

(***************************************************************************)
(* The ignore list.  analyze_sbom(..., ignore_file=..., show_ignored=...), *)
(* _load_ignore_file and _is_ignored are called by the tests but are not   *)
(* part of this revision of sbom-check.py; they are modelled from the      *)
(* specification: an ordered list of entries, each a literal PURL or a     *)
(* purl_regex with a reason, the first match wins, and a matching          *)
(* component is reported as ignored instead of being resolved.  A          *)
(* purl_regex is modelled by the anchored literal prefix it stands for.    *)
(***************************************************************************)
\* an entry is [kind |-> "purl", purl |-> a PURL] or
\* [kind |-> "purl_regex", purl |-> the prefix the expression stands for]
Matches(entry, purl) ==
    IF entry.kind = "purl" THEN entry.purl = purl
    ELSE StartsWith(purl, entry.purl)

\* a faulty variant of _is_ignored: literal entries are never matched
IsIgnoredByRegexOnly(purl, parsed, entries) ==
    LET hits == { i \in DOMAIN entries :
                    entries[i].kind = "purl_regex" /\ Matches(entries[i], purl) }
    IN  IF hits = {} THEN None
        ELSE Some(entries[CHOOSE i \in hits : \A j \in hits : i <= j])

\* the first entry that matches the component, or None
_is_ignored(purl, parsed, entries) ==
    LET hits == { i \in DOMAIN entries : Matches(entries[i], purl) }
    IN  IF hits = {} THEN None
        ELSE Some(entries[CHOOSE i \in hits : \A j \in hits : i <= j])

IsIgnoredComponent(purl, entries) ==
    /\ Len(purl) > 0
    /\ parse_purl(purl) # None
    /\ _is_ignored(purl, parse_purl(purl), entries) # None

\* the components left to resolve, and the ones reported as IGNORED
NotIgnored(components, entries) ==
    SelectSeq(components, LAMBDA purl : ~IsIgnoredComponent(purl, entries))
IgnoredComponents(components, entries) ==
    SelectSeq(components, LAMBDA purl : IsIgnoredComponent(purl, entries))

IgnoreFiles ==
    { <<>>,
      << [kind |-> "purl_regex",
          purl |-> PkgPrefix \o Maven \o <<"/">> \o GroupGoogle],
         [kind |-> "purl", purl |-> Purl(Item(CoordExample, V100))] >> }

\* _make_release_cache_key: release:{type}:{group or name}:{artifact}:{version}
_make_release_cache_key(pkg_type, parsed) ==
    [k |-> "release", type |-> pkg_type, group |-> parsed.coord.group,
     name |-> parsed.coord.name, version |-> parsed.version]

\* latest:{type}:{group}:{artifact} for maven, latest:{type}:{name} otherwise
LatestKey(parsed) ==
    [k |-> "latest", type |-> parsed.coord.type, group |-> parsed.coord.group,
     name |-> parsed.coord.name, version |-> <<>>]

\* a faulty variant of ReleaseEntry: the resolved date is not written to the cache
ReleaseEntryWithoutDate(rd) == [kind |-> "release", date |-> None]

\* {'date': rd.isoformat() if rd else None} (line 923)
ReleaseEntry(rd) ==
    [kind |-> "release",
     date |-> IF rd = None THEN None ELSE Some(isoformat(The(rd)))]
\* a faulty variant of LatestEntry: the source tag is never recorded
LatestEntryWithoutSource(latest, newer, src) ==
    [kind |-> "latest", latest |-> latest, newer |-> newer, source |-> None]

\* entry = {'latest': latest, 'newer': newer}, plus 'source' if src (1041-47)
LatestEntry(latest, newer, src) ==
    [kind |-> "latest", latest |-> latest, newer |-> newer, source |-> src]
JunkEntry == [kind |-> "junk"]

EmptyMap == [x \in {} |-> {}]
Get(m, key) == IF key \in DOMAIN m THEN Some(m[key]) ELSE None
Put(m, key, val) == [x \in DOMAIN m \cup {key} |-> IF x = key THEN val ELSE m[x]]

\* priority_groups = ('com.google', 'androidx')
PriorityGroups ==
    { <<"c", "o", "m", ".", "g", "o", "o", "g", "l", "e">>,
      <<"a", "n", "d", "r", "o", "i", "d", "x">> }
\* a faulty variant of use_google_first: the group is compared, not its prefix
use_google_first_exact(group) == group \in PriorityGroups
use_google_first(group) == \E p \in PriorityGroups : StartsWith(group, p)


(***************************************************************************)
(* The registries.  A resolver's answer is fixed the first time it is      *)
(* asked and kept in `registry`, so that every later call with the same    *)
(* arguments in the same or a later run sees the same registry data.       *)
(* While netDown holds every resolver fails and returns None.              *)
(***************************************************************************)
VARIABLES
    sbom, max_age_days, check_updates, cache_file, max_workers,
    disk, registry, run, netDown,
    pc, persistent_cache, transient_latest_cache, transient_release_cache,
    work_items, t1, results, alarms, t2, latest_results, output,
    latest_lookups, history

\* the state of the file at sbom_path, and the components for which
\* fetch_release called a release-date resolver in the current run
VARIABLES sbom_file, release_lookups

\* one resolver call in progress: the function called and its arguments,
\* the position in its chain, the requests made so far with their
\* responses, and what it returned; _cache is get_maven_release_date._cache
VARIABLES rcall, rpc, rlog, rret, _cache

\* the entries of the ignore file given to the run, and the components the
\* run reported as ignored
VARIABLES ignore_file, ignored

\* one call of a helper in isolation: the function with its arguments (or the
\* HTTP request handed to SESSION), and what came of it
VARIABLES fin, fret

hvars == << fin, fret >>

rvars == << rcall, rpc, rlog, rret, _cache >>

vars ==
    << rcall, rpc, rlog, rret, _cache, sbom, max_age_days, check_updates, cache_file, max_workers,
       disk, registry, run, netDown,
       pc, persistent_cache, transient_latest_cache, transient_release_cache,
       work_items, t1, results, alarms, t2, latest_results, output,
       latest_lookups, history, sbom_file, release_lookups,
       ignore_file, ignored, fin, fret >>

args ==
    << sbom, sbom_file, max_age_days, check_updates, cache_file, max_workers,
       ignore_file >>

CacheFiles == {"cache.json"}

\* the release dates a registry may hold for a component's own version:
\* exactly MaxAge days old, one tick older, and a full day older
ReleaseTicks ==
    { Now - TicksPerDay * MaxAge, Now - TicksPerDay * MaxAge - 1,
      Now - TicksPerDay * (MaxAge + 1) }
\* the release dates it may hold for a candidate that is not version-shaped:
\* later than every ReleaseTicks date, or as old as the oldest of them
CandidateTicks == { Now - 1, Now - TicksPerDay * (MaxAge + 1) }

Aware(t) == [t |-> t, aware |-> TRUE]
Naive(t) == [t |-> t, aware |-> FALSE]

\* what a release-date resolver can return for (coordinate, version); the
\* Maven chain always returns an aware datetime, the others return what the
\* registry's timestamp text parses to
ReleaseAnswers(coord, version) ==
    IF version \in {V100, V200, V300}
    THEN {None} \cup { Some(Aware(t)) : t \in ReleaseTicks }
    ELSE {None} \cup { Some(Aware(t)) : t \in CandidateTicks }
           \cup (IF coord.type = Maven THEN {}
                 ELSE { Some(Naive(t)) : t \in {Now - 1} })

Found(v, src) == [latest |-> Some(v), src |-> src]
NotFound == [latest |-> None, src |-> None]

\* what a latest-version resolver can return; only get_latest_maven_version
\* returns a source tag
LatestAnswers(coord) ==
    IF coord.type = Maven
    THEN {NotFound} \cup
         { Found(v, Some(s)) : v \in {V200, VNoisy}, s \in {"repo1", "central-fallback"} }
    ELSE {NotFound} \cup { Found(v, None) : v \in {V200, VNoisy} }

ReleaseQuery(coord, version) == [q |-> "release", coord |-> coord, version |-> version]
LatestQuery(coord) == [q |-> "latest", coord |-> coord, version |-> <<>>]

\* the registry agrees with every answer it gave before
Consistent(query, answer) ==
    query \in DOMAIN registry => registry[query] = answer


(***************************************************************************)
(* analyze_sbom: start of a run (lines 787-879).                           *)
(***************************************************************************)
\* _load_persistent_cache: a missing file reads as the empty cache
_load_persistent_cache(file) == IF file = None THEN EmptyMap ELSE disk

\* a faulty variant of UsesCache: the cache file is used whenever one is given
UsesCacheFileGiven == cache_file # None
UsesCache == check_updates /\ cache_file # None

\* the file at sbom_path: readable JSON, absent, or not JSON
SbomFiles == {"ok", "missing", "not_json"}

\* the cache file before the first run: absent, or an object written by hand
\* or by another tool that holds, under the first component's release key,
\* either a member that is not an entry or a date without UTC offset
InitialDisks(s) ==
    LET key == _make_release_cache_key(s[1].coord.type, s[1])
    IN  {EmptyMap} \cup
        { Put(EmptyMap, key, JunkEntry) } \cup
        { Put(EmptyMap, key,
              ReleaseEntry(Some(Naive(Now - TicksPerDay * (MaxAge + 1))))) }

\* a cache file left by an earlier run of this or an older revision of the
\* tool: under the first component's latest key an entry without a source,
\* one from the artifact-name-only search, and one from repo1
SeededDisks(s) ==
    { Put(EmptyMap, LatestKey(s[1]), LatestEntry(V200, Some(TRUE), src)) :
        src \in {None, Some("central-fallback"), Some("repo1")} }

NoCall == [fn |-> "none", group |-> <<>>, version |-> <<>>]
NoReturn == [value |-> None, src |-> None]

ResolversIdle ==
    /\ rcall = NoCall
    /\ rpc = "idle"
    /\ rlog = <<>>
    /\ rret = NoReturn
    /\ _cache = EmptyMap

NoResult == [state |-> "none"]

HelpersIdle ==
    /\ fin = [fn |-> "none"]
    /\ fret = NoResult

\* the state before a run over one of the SBOMs `sboms` with one of the
\* ignore files `ignores`
InitOf(sboms, ignores, seeded) ==
    /\ ResolversIdle
    /\ HelpersIdle
    /\ ignore_file \in ignores
    /\ ignored = <<>>
    /\ sbom_file \in SbomFiles
    /\ sbom \in IF sbom_file = "ok" THEN sboms ELSE {<<>>}
    /\ max_age_days \in 1..MaxAge
    /\ check_updates \in BOOLEAN
    /\ cache_file \in {None} \cup { Some(f) : f \in CacheFiles }
    /\ max_workers \in 1..MaxWorkers
    /\ disk \in IF WorkItems(sbom) = <<>> THEN {EmptyMap}
                 ELSE IF seeded /\ cache_file # None
                 THEN \* the file exists, whether or not the run asks for updates
                      SeededDisks(WorkItems(sbom))
                 ELSE IF ~seeded /\ UsesCache THEN InitialDisks(WorkItems(sbom))
                 ELSE {EmptyMap}
    /\ registry = EmptyMap
    /\ run = 1
    /\ netDown = FALSE
    /\ pc = "start"
    /\ persistent_cache = EmptyMap
    /\ transient_latest_cache = EmptyMap
    /\ transient_release_cache = EmptyMap
    /\ work_items = <<>>
    /\ t1 = <<>>
    /\ results = <<>>
    /\ alarms = <<>>
    /\ t2 = <<>>
    /\ latest_results = <<>>
    /\ output = <<>>
    /\ latest_lookups = {}
    /\ release_lookups = {}
    /\ history = <<>>

\* this revision of analyze_sbom takes no ignore file
Init == InitOf(Sboms, {<<>>}, FALSE)

Start ==
    /\ pc = "start"
    /\ sbom_file = "ok"
    /\ persistent_cache' =
          IF check_updates THEN _load_persistent_cache(cache_file) ELSE EmptyMap
    /\ transient_latest_cache' = EmptyMap
    /\ transient_release_cache' = EmptyMap
    /\ work_items' = WorkItems(NotIgnored(sbom, ignore_file))
    /\ ignored' = IgnoredComponents(sbom, ignore_file)
    /\ t1' = [i \in 1..Len(work_items') |-> "queued"]
    /\ results' = <<>>
    /\ alarms' = <<>>
    /\ t2' = <<>>
    /\ latest_results' = <<>>
    /\ output' = <<>>
    /\ latest_lookups' = {}
    /\ release_lookups' = {}
    /\ pc' = "phase1"
    /\ UNCHANGED << hvars, rvars, args, disk, registry, run, netDown, history >>

\* lines 789-800: open or json.load raised; log_error and sys.exit(1)
ExitUnreadable ==
    /\ pc = "start"
    /\ sbom_file # "ok"
    /\ pc' = "exit1"
    /\ UNCHANGED << hvars, rvars, args, ignored, disk, registry, run, netDown, persistent_cache,
                    transient_latest_cache, transient_release_cache, work_items,
                    t1, results, alarms, t2, latest_results, output,
                    latest_lookups, release_lookups, history >>

(***************************************************************************)
(* Phase 1: fetch_release on a pool of max_workers threads (882-936).      *)
(* A task leaves the executor's FIFO queue when fewer than max_workers of  *)
(* the tasks submitted before it are unfinished.                           *)
(***************************************************************************)
\* a faulty variant of Finished: a task counts as finished once it has started
FinishedOnceStarted(st) == st # "queued"
Finished(st) == st \in {"done", "raised"}

\* a faulty variant of Dequeued: every submitted task starts at once
DequeuedAtOnce(t, i) == TRUE

Dequeued(t, i) ==
    Cardinality({ j \in 1..(i - 1) : ~Finished(t[j]) }) < max_workers

Unspecified == <<"u", "n", "s", "p", "e", "c", "i", "f", "i", "e", "d">>

\* a faulty variant of VersionUnspecified: the sentinel is compared without lower()
VersionUnspecifiedExactCase(version) ==
    Len(version) = 0 \/ version = Unspecified

\* line 909: not version or version.lower() == 'unspecified'
VersionUnspecified(version) ==
    Len(version) = 0 \/ lower(version) = Unspecified

\* lines 900-912: the ecosystems with a release-date resolver; for maven the
\* resolver is called only for a specified version
CallsResolver(item) ==
    \/ item.coord.type \in NameEcosystems
    \/ item.coord.type = Maven /\ ~VersionUnspecified(item.version)

\* the resolver a component's ecosystem selects (lines 900-912)
ReleaseResolverAnswers(item) ==
    IF CallsResolver(item) /\ ~netDown
    THEN ReleaseAnswers(item.coord, item.version)
    ELSE {None}

\* lines 883-895: the persistent cache, then the transient cache
FetchReleaseCheck(i) ==
    /\ pc = "phase1"
    /\ i \in DOMAIN t1
    /\ t1[i] = "queued"
    /\ Dequeued(t1, i)
    /\ LET item == work_items[i]
           cache_key == _make_release_cache_key(item.coord.type, item)
           cached == IF UsesCache THEN Get(persistent_cache, cache_key) ELSE None
       IN  IF cached # None /\ The(cached).kind = "junk"
           THEN \* cached.get raises; the future holds the exception
                /\ t1' = [t1 EXCEPT ![i] = "raised"]
                /\ UNCHANGED results
           ELSE IF cached # None /\ The(cached).date # None
           THEN /\ t1' = [t1 EXCEPT ![i] = "done"]
                /\ results' = Append(results,
                       [i |-> i, rd |-> Some(fromisoformat(The(The(cached).date)))])
           ELSE IF cache_key \in DOMAIN transient_release_cache
           THEN /\ t1' = [t1 EXCEPT ![i] = "done"]
                /\ results' = Append(results,
                       [i |-> i, rd |-> transient_release_cache[cache_key]])
           ELSE /\ t1' = [t1 EXCEPT ![i] = "lookup"]
                /\ UNCHANGED results
    /\ UNCHANGED << hvars, rvars, args, ignored, disk, registry, run, netDown, pc, persistent_cache,
                    transient_latest_cache, transient_release_cache, work_items,
                    alarms, t2, latest_results, output, latest_lookups, release_lookups, history >>

\* lines 896-926: the registry lookup, then both caches are written
FetchReleaseLookup(i) ==
    /\ pc = "phase1"
    /\ i \in DOMAIN t1
    /\ t1[i] = "lookup"
    /\ LET item == work_items[i]
           cache_key == _make_release_cache_key(item.coord.type, item)
           query == ReleaseQuery(item.coord, item.version)
       IN  \E answer \in ReleaseResolverAnswers(item) :
             /\ (CallsResolver(item) /\ ~netDown) => Consistent(query, answer)
             /\ registry' = IF CallsResolver(item) /\ ~netDown
                            THEN Put(registry, query, answer) ELSE registry
             /\ LET rd == AsUtc(answer)
                IN  /\ transient_release_cache' =
                          Put(transient_release_cache, cache_key, rd)
                    /\ persistent_cache' =
                          IF UsesCache
                          THEN Put(persistent_cache, cache_key, ReleaseEntry(rd))
                          ELSE persistent_cache
                    /\ results' = Append(results, [i |-> i, rd |-> rd])
    /\ t1' = [t1 EXCEPT ![i] = "done"]
    /\ release_lookups' =
          IF CallsResolver(work_items[i])
          THEN release_lookups \cup {i} ELSE release_lookups
    /\ UNCHANGED << hvars, rvars, args, ignored, disk, run, netDown, pc, transient_latest_cache,
                    work_items, alarms, t2, latest_results, output,
                    latest_lookups, history >>

\* a faulty variant of CollectAlarms: every resolved component becomes a candidate
RECURSIVE CollectResolved(_, _)
CollectResolved(res, limit) ==
    IF res = <<>> THEN <<>>
    ELSE LET r == Head(res)
             rest == CollectResolved(Tail(res), limit)
         IN  IF r.rd = None THEN rest
             ELSE <<[i |-> r.i, rd |-> The(r.rd),
                     age_days |-> AgeDays(Now, The(r.rd))]>> \o rest

\* lines 938-945: the alarm candidates, in the order the results arrived
RECURSIVE CollectAlarms(_, _)
CollectAlarms(res, limit) ==
    IF res = <<>> THEN <<>>
    ELSE LET r == Head(res)
             rest == CollectAlarms(Tail(res), limit)
         IN  IF r.rd = None THEN rest
             ELSE LET age_days == AgeDays(Now, The(r.rd))
                  IN  IF age_days > limit
                      THEN <<[i |-> r.i, rd |-> The(r.rd), age_days |-> age_days]>>
                              \o rest
                      ELSE rest

QueuedTask == [st |-> "queued", latest |-> None, src |-> None, need |-> FALSE]

\* now - rd (line 943) raises TypeError for a naive rd; nothing catches it
SubtractionRaises(res) ==
    \E n \in 1..Len(res) : res[n].rd # None /\ ~The(res[n].rd).aware

Collect ==
    /\ pc = "phase1"
    /\ \A i \in DOMAIN t1 : Finished(t1[i])
    /\ IF SubtractionRaises(results)
       THEN /\ pc' = "crashed"
            /\ UNCHANGED << alarms, t2 >>
       ELSE /\ alarms' = CollectAlarms(results, max_age_days)
            /\ t2' = [k \in 1..Len(alarms') |-> QueuedTask]
            /\ pc' = "phase2"
    /\ UNCHANGED << hvars, rvars, args, ignored, disk, registry, run, netDown, persistent_cache,
                    transient_latest_cache, transient_release_cache, work_items,
                    t1, results, latest_results, output, latest_lookups, release_lookups, history >>


(***************************************************************************)
(* Phase 2: fetch_latest_for_alarm on a second pool (948-1058).            *)
(***************************************************************************)
\* what the latest-version resolver of the component's ecosystem can return
LatestResolverAnswers(item) ==
    IF netDown THEN {NotFound} ELSE LatestAnswers(item.coord)

\* what the release-date resolver can return for the candidate (1010-1019)
ValidationAnswers(item, latest) ==
    IF netDown THEN {None} ELSE ReleaseAnswers(item.coord, latest)

\* lines 954-982: the candidate the two caches hold, and whether the
\* resolver has to be called
FetchLatestCheck(k) ==
    /\ pc = "phase2"
    /\ k \in DOMAIN t2
    /\ t2[k].st = "queued"
    /\ Dequeued([j \in DOMAIN t2 |-> t2[j].st], k)
    /\ LET item == work_items[alarms[k].i]
           cache_key == LatestKey(item)
           hit == Get(transient_latest_cache, cache_key)
           cached_entry == Get(persistent_cache, cache_key)
           junk == cached_entry # None /\ The(cached_entry).kind # "latest"
           latest == IF hit # None THEN hit
                     ELSE IF cached_entry = None \/ junk THEN None
                     ELSE Some(The(cached_entry).latest)
           src == IF cached_entry = None \/ junk THEN None
                  ELSE The(cached_entry).source
           need_refresh ==
               /\ item.coord.type = Maven
               /\ use_google_first(item.coord.group)
               /\ \/ src = None
                  \/ src = Some("central-fallback")
                  \/ latest # None /\ ~_is_semver_like(latest)
                       /\ src = Some("central-fallback")
       IN  t2' = [t2 EXCEPT ![k] =
                    IF junk /\ (hit = None \/ item.coord.type = Maven)
                    THEN \* .get on the entry raises inside the try (994-995)
                         [st |-> "resolve", latest |-> None, src |-> None,
                          need |-> FALSE]
                    ELSE [st |-> "resolve", latest |-> latest,
                          src |-> IF item.coord.type = Maven THEN src ELSE None,
                          need |-> latest = None \/ need_refresh]]
    /\ UNCHANGED << hvars, rvars, args, ignored, disk, registry, run, netDown, pc, persistent_cache,
                    transient_latest_cache, transient_release_cache, work_items,
                    t1, results, alarms, latest_results, output, latest_lookups, release_lookups,
                    history >>

\* lines 999-1030: a candidate that is not version-shaped is kept only if
\* its own release date is later than rd; a TypeError of the comparison
\* (naive against aware datetime) reaches the outer except, which keeps it
Validate(latest, latest_rd, rd) ==
    IF latest = None THEN None
    ELSE IF _is_semver_like(latest) THEN latest
    ELSE IF latest_rd # None /\ The(latest_rd).aware # rd.aware THEN latest
    ELSE IF latest_rd # None /\ The(latest_rd).t > rd.t THEN latest
    ELSE None

\* lines 983-1049: the resolver call, the validation and the cache writes
FetchLatestResolve(k) ==
    /\ pc = "phase2"
    /\ k \in DOMAIN t2
    /\ t2[k].st = "resolve"
    /\ LET a == alarms[k]
           item == work_items[a.i]
           cache_key == LatestKey(item)
           lquery == LatestQuery(item.coord)
       IN  \E lans \in IF t2[k].need THEN LatestResolverAnswers(item) ELSE {NotFound} :
             LET asked == t2[k].need /\ ~netDown
                 latest == IF t2[k].need THEN lans.latest ELSE t2[k].latest
                 src == IF t2[k].need /\ item.coord.type = Maven
                        THEN lans.src ELSE t2[k].src
                 validating == latest # None /\ ~_is_semver_like(latest)
                 reg1 == IF asked THEN Put(registry, lquery, lans) ELSE registry
             IN  /\ asked => Consistent(lquery, lans)
                 /\ \E vans \in IF validating
                                THEN ValidationAnswers(item, The(latest))
                                ELSE {None} :
                      LET vquery == ReleaseQuery(item.coord, The(latest))
                          vasked == validating /\ ~netDown
                          kept == Validate(latest, vans, a.rd)
                          cached == Get(persistent_cache, cache_key)
                          newer == compare_versions(Some(item.version), kept,
                                                    item.coord.type)
                      IN  /\ vasked => (vquery \in DOMAIN reg1 => reg1[vquery] = vans)
                          /\ registry' = IF vasked THEN Put(reg1, vquery, vans)
                                         ELSE reg1
                          /\ transient_latest_cache' =
                                IF kept # None
                                THEN Put(transient_latest_cache, cache_key, The(kept))
                                ELSE transient_latest_cache
                          /\ persistent_cache' =
                                IF kept # None
                                   /\ ~(cached # None /\ The(cached).latest = The(kept))
                                THEN Put(persistent_cache, cache_key,
                                         LatestEntry(The(kept), newer, src))
                                ELSE persistent_cache
                          /\ latest_results' = Append(latest_results,
                                [i |-> a.i, rd |-> a.rd, age_days |-> a.age_days,
                                 latest |-> kept])
    /\ latest_lookups' = IF t2[k].need THEN latest_lookups \cup {alarms[k].i}
                         ELSE latest_lookups
    /\ t2' = [t2 EXCEPT ![k].st = "done"]
    /\ UNCHANGED << hvars, rvars, args, ignored, disk, run, netDown, pc, transient_release_cache,
                    work_items, t1, results, alarms, output, history,
                    release_lookups >>

(***************************************************************************)
(* The report (1061-1077) and the cache file (1079-1089).                  *)
(***************************************************************************)
NoUpdate == None
Update(latest, src) == Some([latest |-> latest, src |-> src])

\* a faulty variant of AlarmLine: the recorded verdict is not consulted
AlarmLineWithoutVerdict(r, cache) ==
    LET item == work_items[r.i]
        entry == Get(cache, LatestKey(item))
    IN  [i |-> r.i, age_days |-> r.age_days,
         update |-> IF r.latest # None /\ The(r.latest) # item.version
                    THEN Update(The(r.latest),
                                IF entry = None THEN None ELSE The(entry).source)
                    ELSE NoUpdate]

\* one ALARM line; update is the UPDATE_AVAILABLE part, when printed
AlarmLine(r, cache) ==
    LET item == work_items[r.i]
        entry == Get(cache, LatestKey(item))
        newer == IF entry = None THEN None ELSE The(entry).newer
        src == IF entry = None THEN None ELSE The(entry).source
    IN  [i |-> r.i, age_days |-> r.age_days,
         update |-> IF r.latest # None /\ The(r.latest) # item.version
                       /\ (newer = Some(TRUE) \/ newer = None)
                    THEN Update(The(r.latest), src)
                    ELSE NoUpdate]

PrintAlarms ==
    /\ pc = "phase2"
    /\ \A k \in DOMAIN t2 : Finished(t2[k].st)
    /\ output' = [n \in 1..Len(latest_results) |->
                     AlarmLine(latest_results[n], persistent_cache)]
    /\ pc' = "save"
    /\ UNCHANGED << hvars, rvars, args, ignored, disk, registry, run, netDown, persistent_cache,
                    transient_latest_cache, transient_release_cache, work_items,
                    t1, results, alarms, t2, latest_results, latest_lookups, release_lookups,
                    history >>

\* _save_persistent_cache, called only with check_updates and a cache file
Save ==
    /\ pc = "save"
    /\ disk' = IF UsesCache THEN persistent_cache ELSE disk
    /\ history' = Append(history, [netDown |-> netDown, output |-> output])
    /\ pc' = "done"
    /\ UNCHANGED << hvars, rvars, args, ignored, registry, run, netDown, persistent_cache,
                    transient_latest_cache, transient_release_cache, work_items,
                    t1, results, alarms, t2, latest_results, output,
                    latest_lookups, release_lookups >>

\* the tool is run again on the same SBOM with the same arguments; the
\* registries may be unreachable this time
NextRun ==
    /\ pc = "done"
    /\ run < MaxRuns
    /\ UsesCache
    /\ run' = run + 1
    /\ netDown' \in BOOLEAN
    /\ pc' = "start"
    /\ UNCHANGED << hvars, rvars, args, ignored, disk, registry, persistent_cache,
                    transient_latest_cache, transient_release_cache, work_items,
                    t1, results, alarms, t2, latest_results, output,
                    latest_lookups, release_lookups, history >>

Next ==
    \/ Start
    \/ ExitUnreadable
    \/ \E i \in 1..MaxComps : FetchReleaseCheck(i)
    \/ \E i \in 1..MaxComps : FetchReleaseLookup(i)
    \/ Collect
    \/ \E k \in 1..MaxComps : FetchLatestCheck(k)
    \/ \E k \in 1..MaxComps : FetchLatestResolve(k)
    \/ PrintAlarms
    \/ Save
    \/ NextRun

Spec == Init /\ [][Next]_vars

\* Every HTTP call carries a timeout (DEFAULT_TIMEOUTS), so a resolver call
\* returns or raises; a pool thread that holds a task runs it to its end, and
\* the dispatching thread goes on when as_completed has yielded every future:
\* while a step of the run is possible, one is taken.  (No step of a run
\* undoes another, so this is as strong as fairness for every task.)
\* Fairness begins where the pools begin, with the work items built; running
\* the tool once more is left to the user and is not forced.
Fairness ==
    WF_vars(\/ \E i \in 1..MaxComps : FetchReleaseCheck(i) \/ FetchReleaseLookup(i)
            \/ Collect
            \/ \E k \in 1..MaxComps : FetchLatestCheck(k) \/ FetchLatestResolve(k)
            \/ PrintAlarms
            \/ Save)

SpecLive == Init /\ [][Next]_vars /\ Fairness

\* runs over SBOMs with a component that is skipped or left unresolved, or
\* with an ignore file
InitComponents ==
    \/ InitOf(SbomsWithSpecial, {<<>>}, FALSE)
    \/ InitOf(Sboms, IgnoreFiles \ {<<>>}, FALSE)

SpecComponents == InitComponents /\ [][Next]_vars

\* runs over SBOMs with a component ahead of its registry
SpecAhead == InitOf(SbomsAhead, {<<>>}, FALSE) /\ [][Next]_vars

\* runs that start with a cache file holding a latest entry
SpecSeeded == InitOf(Sboms, {<<>>}, TRUE) /\ [][Next]_vars

\* an exception leaves fetch_latest_for_alarm; the future holds it and the
\* loop over as_completed passes over the item (lines 1054-1058)
FetchLatestRaise(k) ==
    /\ pc = "phase2"
    /\ k \in DOMAIN t2
    /\ t2[k].st = "resolve"
    /\ t2' = [t2 EXCEPT ![k].st = "raised"]
    /\ UNCHANGED << hvars, rvars, args, ignored, disk, registry, run, netDown, pc, persistent_cache,
                    transient_latest_cache, transient_release_cache, work_items,
                    t1, results, alarms, latest_results, output, latest_lookups, release_lookups,
                    history >>

NextFault ==
    \/ Next
    \/ \E k \in 1..MaxComps : FetchLatestRaise(k)

SpecFault == Init /\ [][NextFault]_vars


(***************************************************************************)
(* The resolvers, one HTTP request at a time.  A response is               *)
(*   exc    the request, or the handling of its response, raised to the   *)
(*          tier's try (timeout, connection error, raise_for_status, a     *)
(*          JSON body that does not parse),                                *)
(*   miss   a status other than 200, or no matching document,              *)
(*   empty  status 200 without a usable value (no Last-Modified header, no *)
(*          version element, no anchor),                                   *)
(*   hit    status 200 with the value the tier looks for.                  *)
(***************************************************************************)
Exc == [kind |-> "exc", value |-> None]
Miss == [kind |-> "miss", value |-> None]
Empty == [kind |-> "empty", value |-> None]
Hit(x) == [kind |-> "hit", value |-> Some(x)]
\* maven-metadata.xml whose last <version> element has no text: the tier
\* returns (None, tag) at once (lines 401-403, 443-445, 493-495)
Blank == [kind |-> "blank", value |-> None]

\* a Last-Modified header or a search timestamp always gives an aware date;
\* for a version lookup a 200 without a version goes on like a miss
DateResponses == {Exc, Miss, Empty} \cup { Hit(Aware(t)) : t \in {Now - 1} }
VersionResponses == {Exc, Miss} \cup { Hit(v) : v \in {V200, VNoisy} }

Groups == {GroupExample, GroupGoogle}
Versions == {V100, VNoisy}

ovars ==
    << sbom, max_age_days, check_updates, cache_file, max_workers,
       disk, registry, run, netDown,
       pc, persistent_cache, transient_latest_cache, transient_release_cache,
       work_items, t1, results, alarms, t2, latest_results, output,
       latest_lookups, history, sbom_file, release_lookups,
       ignore_file, ignored >>

\* a faulty variant of ExceptPass: the exception leaves the resolver
ExceptRaise(next) == "raise"

\* `except Exception: pass` around a tier: the chain goes on at `next`
ExceptPass(next) == next

\* a faulty variant of Return: every result is tagged
ReturnTagged(value, src) ==
    /\ rpc' = "returned"
    /\ rret' = [value |-> value, src |-> Some("registry")]

\* what the caller receives: the value and, from get_latest_maven_version
\* only, the source tag
Return(value, src) ==
    /\ rpc' = "returned"
    /\ rret' = [value |-> value, src |-> src]

Goto(pos) ==
    /\ rpc' = pos
    /\ rret' = rret

\* the tier of get_maven_release_date a request belongs to:
\* 1 search.maven.org, 2 repo1.maven.org, 3 dl.google.com / maven.google.com
MavenReleaseTier(pos) ==
    CASE pos = "search" -> 1
      [] pos \in {"repo1_head", "repo1_get"} -> 2
      [] pos \in {"gdl_head", "mg_head", "mg_get"} -> 3

\* a faulty variant of MavenReleaseAfter: the Google mirror is asked before repo1
MavenReleaseAfterGoogleFirst(pos, kind) ==
    CASE pos = "search" -> "gdl_head"
      [] pos = "gdl_head" -> IF kind = "exc" THEN "repo1_head" ELSE "mg_head"
      [] pos = "mg_head" -> IF kind = "empty" THEN "mg_get" ELSE "repo1_head"
      [] pos = "mg_get" -> "repo1_head"
      [] pos = "repo1_head" -> IF kind = "exc" THEN "none" ELSE "repo1_get"
      [] pos = "repo1_get" -> "none"

\* get_maven_release_date (280-386): where the chain goes after a request
\* at `pos` that gave no date; "none" is `return None` at line 386
MavenReleaseAfter(pos, kind) ==
    CASE pos = "search" -> ExceptPass("repo1_head")
      [] pos = "repo1_head" ->
            IF kind = "exc" THEN ExceptPass("gdl_head") ELSE "repo1_get"
      [] pos = "repo1_get" -> ExceptPass("gdl_head")
      [] pos = "gdl_head" ->
            IF kind = "exc" THEN ExceptPass("none") ELSE "mg_head"
      [] pos = "mg_head" ->
            IF kind = "empty" THEN "mg_get" ELSE ExceptPass("none")
      [] pos = "mg_get" -> ExceptPass("none")

\* the GET of the maven.google.com descriptor may carry a Last-Modified
\* header like any other response; lines 371-378 read only its body
MavenReleaseResponses(pos) ==
    IF pos = "search" THEN DateResponses \ {Empty}
    ELSE DateResponses

CacheKey(call) == [group |-> call.group, version |-> call.version]

CallMavenRelease(g, v) ==
    /\ rpc \in {"idle", "returned"}
    /\ rcall' = [fn |-> "get_maven_release_date", group |-> g, version |-> v]
    /\ rlog' = <<>>
    /\ IF CacheKey(rcall') \in DOMAIN _cache
       THEN Return(_cache[CacheKey(rcall')], None)
       ELSE /\ rpc' = "search"
            /\ rret' = NoReturn
    /\ UNCHANGED << _cache, ovars, hvars >>

MavenReleaseRequest ==
    /\ rcall.fn = "get_maven_release_date"
    /\ rpc \notin {"idle", "returned", "raised"}
    /\ \E resp \in MavenReleaseResponses(rpc) :
         /\ rlog' = Append(rlog, [pos |-> rpc, resp |-> resp])
         /\ IF resp.kind = "hit" /\ rpc # "mg_get"
            THEN /\ Return(resp.value, None)
                 /\ _cache' = Put(_cache, CacheKey(rcall), resp.value)
            ELSE LET next == MavenReleaseAfter(rpc, resp.kind)
                 IN  IF next = "none"
                     THEN /\ Return(None, None)
                          /\ _cache' = Put(_cache, CacheKey(rcall), None)
                     ELSE IF next = "raise"
                     THEN /\ rpc' = "raised"
                          /\ UNCHANGED << rret, _cache >>
                     ELSE /\ Goto(next)
                          /\ UNCHANGED _cache
    /\ UNCHANGED << rcall, ovars, hvars >>


\* a faulty variant of MavenLatestAfter: the artifact-name-only search is made
\* before the Google mirror
MavenLatestAfterFallbackFirst(pos, kind, group) ==
    CASE pos = "repo1_meta" -> "fallback"
      [] pos = "fallback" -> IF use_google_first(group) THEN "p_gdl" ELSE "gdl"
      [] pos = "p_gdl" -> "p_mg_meta"
      [] pos = "p_mg_meta" -> IF kind = "exc" THEN "gdl" ELSE "p_mg_dir"
      [] pos = "p_mg_dir" -> "gdl"
      [] pos = "gdl" -> "mg_meta"
      [] pos = "mg_meta" -> IF kind = "exc" THEN "none" ELSE "mg_dir"
      [] pos = "mg_dir" -> "none"

\* get_latest_maven_version (389-546): where the chain goes after a request
\* at `pos` that gave no version; "none" is `return None, None`
MavenLatestAfter(pos, kind, group) ==
    CASE pos = "repo1_meta" ->
            ExceptPass(IF use_google_first(group) THEN "p_gdl" ELSE "gdl")
      [] pos = "p_gdl" -> ExceptPass("p_mg_meta")
      [] pos = "p_mg_meta" ->
            IF kind = "exc" THEN ExceptPass("gdl") ELSE "p_mg_dir"
      [] pos = "p_mg_dir" -> ExceptPass("gdl")
      [] pos = "gdl" -> ExceptPass("mg_meta")
      [] pos = "mg_meta" ->
            IF kind = "exc" THEN ExceptPass("fallback") ELSE "mg_dir"
      [] pos = "mg_dir" -> ExceptPass("fallback")
      [] pos = "fallback" -> ExceptPass("none")

\* the provenance tag returned with the version found at `pos`
SourceTag(pos) ==
    CASE pos = "repo1_meta" -> "repo1"
      [] pos \in {"p_gdl", "gdl"} -> "google-dl"
      [] pos \in {"p_mg_meta", "mg_meta"} -> "google-meta"
      [] pos \in {"p_mg_dir", "mg_dir"} -> "google-dir"
      [] pos = "fallback" -> "central-fallback"

MavenLatestResponses(pos) ==
    IF pos \in {"repo1_meta", "p_mg_meta", "mg_meta"}
    THEN VersionResponses \cup {Blank}
    ELSE VersionResponses

CallMavenLatest(g) ==
    /\ rpc \in {"idle", "returned"}
    /\ rcall' = [fn |-> "get_latest_maven_version", group |-> g, version |-> <<>>]
    /\ rlog' = <<>>
    /\ rpc' = "repo1_meta"
    /\ rret' = NoReturn
    /\ UNCHANGED << _cache, ovars, hvars >>

MavenLatestRequest ==
    /\ rcall.fn = "get_latest_maven_version"
    /\ rpc \notin {"idle", "returned", "raised"}
    /\ \E resp \in MavenLatestResponses(rpc) :
         /\ rlog' = Append(rlog, [pos |-> rpc, resp |-> resp])
         /\ IF resp.kind \in {"hit", "blank"}
            THEN Return(resp.value, Some(SourceTag(rpc)))
            ELSE LET next == MavenLatestAfter(rpc, resp.kind, rcall.group)
                 IN  IF next = "none" THEN Return(None, None)
                     ELSE IF next = "raise"
                     THEN /\ rpc' = "raised"
                          /\ UNCHANGED rret
                     ELSE Goto(next)
    /\ UNCHANGED << rcall, _cache, ovars, hvars >>

\* the resolvers with a single registry endpoint: one request inside one try
SimpleDateResolvers ==
    { "get_pypi_release_date", "get_npm_release_date",
      "get_cocoapods_release_date", "get_crates_release_date" }
SimpleLatestResolvers ==
    { "get_latest_pypi_version", "get_latest_npm_version",
      "get_latest_cocoapods_version", "get_latest_crates_version" }

SimpleResponses(fn) ==
    IF fn \in SimpleDateResolvers
    THEN DateResponses \cup { Hit(Naive(t)) : t \in {Now - 1} }
    ELSE VersionResponses

\* after the only request of a single-endpoint resolver fails: return None
SimpleAfter(kind) == ExceptPass("none")

CallSimple(fn) ==
    /\ rpc \in {"idle", "returned"}
    /\ rcall' = [fn |-> fn, group |-> <<>>, version |-> <<>>]
    /\ rlog' = <<>>
    /\ rpc' = "registry"
    /\ rret' = NoReturn
    /\ UNCHANGED << _cache, ovars, hvars >>

SimpleRequest ==
    /\ rcall.fn \in SimpleDateResolvers \cup SimpleLatestResolvers
    /\ rpc = "registry"
    /\ \E resp \in SimpleResponses(rcall.fn) :
         /\ rlog' = Append(rlog, [pos |-> rpc, resp |-> resp])
         /\ IF resp.kind = "hit"
            THEN Return(resp.value, None)
            ELSE IF SimpleAfter(resp.kind) = "raise"
            THEN /\ rpc' = "raised"
                 /\ UNCHANGED rret
            ELSE Return(None, None)
    /\ UNCHANGED << rcall, _cache, ovars, hvars >>

OrchestratorIdle ==
    /\ sbom = <<>>
    /\ ignore_file = <<>>
    /\ ignored = <<>>
    /\ sbom_file = "ok"
    /\ max_age_days = 1
    /\ check_updates = FALSE
    /\ cache_file = None
    /\ max_workers = 1
    /\ disk = EmptyMap
    /\ registry = EmptyMap
    /\ run = 1
    /\ netDown = FALSE
    /\ pc = "idle"
    /\ persistent_cache = EmptyMap
    /\ transient_latest_cache = EmptyMap
    /\ transient_release_cache = EmptyMap
    /\ work_items = <<>>
    /\ t1 = <<>>
    /\ results = <<>>
    /\ alarms = <<>>
    /\ t2 = <<>>
    /\ latest_results = <<>>
    /\ output = <<>>
    /\ latest_lookups = {}
    /\ release_lookups = {}
    /\ history = <<>>

InitResolvers == ResolversIdle /\ OrchestratorIdle /\ HelpersIdle

NextResolvers ==
    \/ \E v \in Versions : CallMavenRelease(GroupExample, v)
    \/ MavenReleaseRequest
    \/ \E g \in Groups : CallMavenLatest(g)
    \/ MavenLatestRequest
    \/ \E fn \in SimpleDateResolvers \cup SimpleLatestResolvers : CallSimple(fn)
    \/ SimpleRequest

SpecResolvers == InitResolvers /\ [][NextResolvers]_vars

(***************************************************************************)
(* The helpers on their own: parse_purl, _is_semver_like, compare_versions *)
(* applied to one input each, and one request sent through SESSION, whose  *)
(* HTTPAdapter re-sends it as its Retry object says (lines 50-61).         *)
(***************************************************************************)
Strs(alphabet, n) == UNION { [1..k -> alphabet] : k \in 0..n }

\* maven PURLs in both forms, and PURLs that are malformed or not maven
PGroups == { <<"g">>, GroupExample }
PArtifacts == { <<"a">>, NameLib }
PVersions ==
    { <<"1">>, V100, <<"1", "?", "x">>, <<"1", "#", "f">>, <<>> }
SlashForm(g, a, v) ==
    PkgPrefix \o Maven \o <<"/">> \o g \o <<"/">> \o a \o <<"@">> \o v
CompactForm(g, a, v) ==
    PkgPrefix \o Maven \o <<"/">> \o g \o <<":">> \o a \o <<"@">> \o v
\* pkg:npm/%40s%2Fn/p@2.0.0
PurlNpmEncoded ==
    PkgPrefix \o Npm
      \o <<"/", "%", "4", "0", "s", "%", "2", "F", "n", "/", "p", "@">> \o V200
PurlInputs ==
    { SlashForm(g, a, v) : g \in PGroups, a \in PArtifacts, v \in PVersions }
      \cup { CompactForm(g, a, v) : g \in PGroups, a \in PArtifacts, v \in PVersions }
      \cup { <<>>, NotAPurl, PurlNpmEncoded, Purl(Item(CoordNpm, V100)) }
      \* maven/org.x/lib@1.0.0 and pkg:maven/org.x/lib
      \cup { LET purl == SlashForm(GroupExample, NameLib, V100)
             IN  SubSeq(purl, Len(PkgPrefix) + 1, Len(purl)),
             PkgPrefix \o Maven \o <<"/">> \o GroupExample \o <<"/">> \o NameLib }
      \* pkg:maven/lib@1.0.0 and pkg:maven@1.0.0
      \cup { PkgPrefix \o Maven \o <<"/">> \o NameLib \o <<"@">> \o V100,
             PkgPrefix \o Maven \o <<"@">> \o V100 }

\* every string of at most MaxLen characters of 1 . - + a and newline, and
\* 1.0.0, m5.1f and 33.5.0-jre
SemverInputs ==
    { [fn |-> "_is_semver_like", type |-> "str", v |-> str] :
        str \in Strs({"1", ".", "-", "+", "a", "\n"}, MaxLen)
                  \cup { V100, VNoisy,
                         <<"3", "3", ".", "5", ".", "0", "-", "j", "r", "e">> } }
      \cup { [fn |-> "_is_semver_like", type |-> t, v |-> <<>>] :
               t \in {"NoneType", "int"} }

\* None, every string of at most MaxVerLen characters of 1 2 a . and the
\* versions 1.0.0 and 2.0.0, for current and for latest
CompareInputs ==
    LET VersionArgs ==
          {None} \cup { Some(str) :
                          str \in Strs({"1", "2", "a", "."}, MaxVerLen)
                                    \cup {V100, V200} }
    IN  { [fn |-> "compare_versions", current |-> c, latest |-> l,
           pkg_type |-> e] : c \in VersionArgs, l \in VersionArgs,
                             e \in {Npm, Maven, <<"p", "y", "p", "i">>} }

\* Retry(total=4, status_forcelist=(429, 500, 502, 503, 504),
\*       allowed_methods=("HEAD", "GET", "OPTIONS"))
retries == 4
status_forcelist == {429, 500, 502, 503, 504}
allowed_methods == {"HEAD", "GET", "OPTIONS"}

\* the methods a request may have and the statuses a server may answer
Methods == allowed_methods \cup {"POST"}
Statuses == {200, 404, 429, 503}

\* a faulty variant of is_retry: the method is not looked at
is_retry_any_method(method, status) == status \in status_forcelist

\* Retry.is_retry as configured: the method is allowed and the status forced
is_retry(method, status) ==
    method \in allowed_methods /\ status \in status_forcelist

InitHelpers ==
    /\ ResolversIdle
    /\ OrchestratorIdle
    /\ \/ fin \in { [fn |-> "parse_purl", purl |-> purl] : purl \in PurlInputs }
       \/ fin \in SemverInputs
       \/ fin \in CompareInputs
       \/ fin \in { [fn |-> "request", method |-> m] : m \in Methods }
    /\ fret = NoResult

ApplyParsePurl ==
    /\ fin.fn = "parse_purl"
    /\ fret = NoResult
    /\ fret' = [state |-> "returned", value |-> parse_purl(fin.purl)]
    /\ UNCHANGED << fin, rvars, ovars >>

\* line 779: not v or not isinstance(v, str), then the regular expression
ApplyIsSemverLike ==
    /\ fin.fn = "_is_semver_like"
    /\ fret = NoResult
    /\ fret' = [state |-> "returned",
                value |-> IF fin.type = "NoneType" THEN _is_semver_like(None)
                          ELSE IF fin.type # "str" THEN FALSE
                          ELSE _is_semver_like(Some(fin.v))]
    /\ UNCHANGED << fin, rvars, ovars >>

ApplyCompareVersions ==
    /\ fin.fn = "compare_versions"
    /\ fret = NoResult
    /\ fret' = [state |-> "returned",
                value |-> compare_versions(fin.current, fin.latest, fin.pkg_type)]
    /\ UNCHANGED << fin, rvars, ovars >>

\* SESSION.get / SESSION.head: the request goes out a first time
Send ==
    /\ fin.fn = "request"
    /\ fret = NoResult
    /\ fret' = [state |-> "waiting", total |-> retries, log |-> <<>>]
    /\ UNCHANGED << fin, rvars, ovars >>

\* a response arrives: it is handed back, or the request is sent again
\* while the Retry object has retries left, or it is exhausted and raises
Respond(status) ==
    /\ fin.fn = "request"
    /\ fret.state = "waiting"
    /\ fret' =
          IF ~is_retry(fin.method, status)
          THEN [fret EXCEPT !.state = "returned", !.log = Append(@, status)]
          ELSE IF fret.total > 0
          THEN [fret EXCEPT !.total = @ - 1, !.log = Append(@, status)]
          ELSE [fret EXCEPT !.state = "raised", !.log = Append(@, status)]
    /\ UNCHANGED << fin, rvars, ovars >>

NextHelpers ==
    \/ ApplyParsePurl
    \/ ApplyIsSemverLike
    \/ ApplyCompareVersions
    \/ Send
    \/ \E status \in Statuses : Respond(status)

SpecHelpers == InitHelpers /\ [][NextHelpers]_vars


(***************************************************************************)
(* Claims about analyze_sbom, checked under Spec.                          *)
(***************************************************************************)
Range(f) == { f[x] : x \in DOMAIN f }
AlarmOf(i) == { a \in Range(alarms) : a.i = i }
Collected == pc \in {"phase2", "save", "done"}

\* the duration now - rd in ticks
Elapsed(rd) == Now - rd.t

\* C1 as stated: a resolved component is an alarm candidate exactly when
\* now - release date is longer than max_age_days days, with the floored age.
C1_AlarmIffOlderThanThreshold ==
    Collected =>
      \A r \in Range(results) :
        r.rd # None =>
          /\ AlarmOf(r.i) # {} <=>
                Elapsed(The(r.rd)) > max_age_days * TicksPerDay
          /\ \A a \in AlarmOf(r.i) :
                /\ a.age_days * TicksPerDay <= Elapsed(The(r.rd))
                /\ Elapsed(The(r.rd)) < (a.age_days + 1) * TicksPerDay

\* C1 amended: a resolved component is an alarm candidate exactly when its
\* age in whole days, floor((now - release date) in days), is greater than
\* max_age_days, that floor is the alarm's age, and once the report is
\* printed the ALARM lines are those of the candidates.
C1_AlarmIffWholeDaysExceedThreshold ==
    /\ Collected =>
         \A r \in Range(results) :
           r.rd # None =>
             /\ AlarmOf(r.i) # {} <=>
                   Elapsed(The(r.rd)) >= (max_age_days + 1) * TicksPerDay
             /\ \A a \in AlarmOf(r.i) :
                   /\ a.age_days * TicksPerDay <= Elapsed(The(r.rd))
                   /\ Elapsed(The(r.rd)) < (a.age_days + 1) * TicksPerDay
    /\ pc \in {"save", "done"} =>
         { [i |-> l.i, age_days |-> l.age_days] : l \in Range(output) }
            = { [i |-> a.i, age_days |-> a.age_days] : a \in Range(alarms) }

\* an alarm has been collected next to a component that is older than
\* max_age_days days by less than a day and is not a candidate
C1_Witness ==
    /\ pc = "done"
    /\ alarms # <<>>
    /\ \E r \in Range(results) :
         /\ r.rd # None
         /\ Elapsed(The(r.rd)) > max_age_days * TicksPerDay
         /\ AlarmOf(r.i) = {}

\* the registry was asked for the candidate's own release date and the
\* answer is a date that compares as strictly later than rd
ShownLater(coord, candidate, rd) ==
    LET query == ReleaseQuery(coord, candidate)
    IN  /\ query \in DOMAIN registry
        /\ registry[query] # None
        /\ The(registry[query]).aware = rd.aware
        /\ The(registry[query]).t > rd.t

\* C2 as stated: a candidate that is not version-shaped and whose own
\* release date was not shown to be later than the current version's release
\* date is never returned by fetch_latest_for_alarm, never cached and never
\* printed as UPDATE_AVAILABLE.
C2_UnvalidatedCandidateNeverSurfaced ==
    /\ \A r \in Range(latest_results) :
         r.latest # None /\ ~_is_semver_like(r.latest) =>
            ShownLater(work_items[r.i].coord, The(r.latest), r.rd)
    /\ pc \in {"save", "done"} =>
         \A l \in Range(output) :
           l.update # NoUpdate /\ ~_is_semver_like(Some(The(l.update).latest)) =>
              \E r \in Range(latest_results) :
                 /\ r.i = l.i
                 /\ ShownLater(work_items[r.i].coord, The(l.update).latest, r.rd)

Priority(coord) == coord.type = Maven /\ use_google_first(coord.group)

\* an UPDATE_AVAILABLE annotation that a run without network prints again:
\* the cached candidate is version-shaped and, for a com.google / androidx
\* group, its recorded source is not the artifact-name-only search
Survives(l) ==
    /\ l.update # NoUpdate
    /\ _is_semver_like(Some(The(l.update).latest))
    /\ ~(/\ Priority(work_items[l.i].coord)
         /\ The(l.update).src \in {None, Some("central-fallback")})

WithoutNetwork(l) == [l EXCEPT !.update = IF Survives(l) THEN l.update ELSE NoUpdate]

\* C3 as stated: a later run in which every resolver fails prints the same
\* alarms with the same update annotations as the first run.
C3_OfflineRunReproducesFirstRun ==
    \A n \in 2..Len(history) :
      history[n].netDown =>
         Range(history[n].output) = Range(history[1].output)

\* C3 amended: a later run in which every resolver fails prints the same
\* alarms as the first run, and the same update annotation for every alarm
\* whose cached latest value is version-shaped and, for com.google / androidx
\* groups, has a recorded source other than central-fallback; the other
\* alarms are printed without annotation.
C3_OfflineRunReproducesValidatedAnnotations ==
    \A n \in 2..Len(history) :
      history[n].netDown =>
         Range(history[n].output)
            = { WithoutNetwork(l) : l \in Range(history[1].output) }

\* an offline second run has reprinted an annotated alarm of the first run
C3_Witness ==
    /\ Len(history) >= 2
    /\ history[2].netDown
    /\ \E l \in Range(history[2].output) :
         l.update # NoUpdate /\ l \in Range(history[1].output)

\* a component whose release date Phase 1 resolved to an age above the limit
Aged(i) ==
    \E r \in Range(results) :
       /\ r.i = i
       /\ r.rd # None
       /\ Elapsed(The(r.rd)) >= (max_age_days + 1) * TicksPerDay

\* C4: the latest-version resolver is called only for components that
\* Phase 1 resolved with an age above the limit, and a latest: key is in a
\* cache only for the coordinate of such a component.
C4_LatestLookupOnlyForAgedComponents ==
    /\ \A i \in latest_lookups : Aged(i)
    /\ Collected =>
         \A key \in DOMAIN persistent_cache \cup DOMAIN transient_latest_cache :
            key.k = "latest" =>
               \E i \in DOMAIN work_items :
                  Aged(i) /\ LatestKey(work_items[i]) = key

\* the resolver was called for one component of an SBOM that also holds a
\* component that is not aged
C4_Witness ==
    /\ pc = "done"
    /\ latest_lookups # {}
    /\ \E i \in DOMAIN work_items : ~Aged(i)
    /\ \E key \in DOMAIN persistent_cache : key.k = "latest"

\* C5 as stated: without check_updates no latest-version resolver is called
\* and no ALARM line carries UPDATE_AVAILABLE.
C5_NoUpdateLookupWithoutCheckUpdates ==
    ~check_updates =>
       /\ latest_lookups = {}
       /\ \A l \in Range(output) : l.update = NoUpdate


\* (C32 is checked under SpecLive)
\* the tasks of a pool that are finished, and the work items with a result
Processed1 == { i \in DOMAIN t1 : Finished(t1[i]) }
Processed2 == { k \in DOMAIN t2 : Finished(t2[k].st) }
ResultsOf(i) == { n \in DOMAIN results : results[n].i = i }
LatestResultsOf(i) == { n \in DOMAIN latest_results : latest_results[n].i = i }

\* C32: a run on a readable SBOM completes both phases: it reaches the end
\* of the report; by then every work item was processed by one Phase-1 task
\* and every alarm candidate by one Phase-2 task, each leaving at most one
\* result, and a finished task is never run again within the run.
C32_RunCompletesBothPhases ==
    /\ (pc = "phase1") ~> (pc = "done")
    /\ [](pc \in {"save", "done"} =>
            /\ Processed1 = DOMAIN work_items
            /\ Processed2 = DOMAIN alarms
            /\ \A i \in DOMAIN work_items :
                  Cardinality(ResultsOf(i)) = IF t1[i] = "done" THEN 1 ELSE 0
            /\ \A k \in DOMAIN alarms :
                  Cardinality(LatestResultsOf(alarms[k].i)) =
                      IF t2[k].st = "done" THEN 1 ELSE 0)
    /\ [][pc' = pc =>
            /\ \A i \in Processed1 : t1'[i] = t1[i]
            /\ \A k \in Processed2 : t2'[k] = t2[k]]_vars

\* C32 without the end of the run by an uncaught exception between the
\* phases: the run completes or ends in the collection loop
C32_RunCompletesOrCrashesInCollect ==
    (pc = "phase1") ~> (pc \in {"done", "crashed"})

(***************************************************************************)
(* Claims about the resolvers, checked under SpecResolvers.                *)
(***************************************************************************)
Positions(log) == { log[j].pos : j \in 1..Len(log) }
LastResponse == rlog[Len(rlog)].resp

\* C6: get_maven_release_date asks the registry search first, then repo1,
\* then the Google mirror; a tier is asked only after every earlier tier was
\* asked and gave no date, and the first date a tier yields is the result
\* (the last request of the last tier, the maven.google.com GET, yields none).
C6_MavenReleaseTiersInOrder ==
    rcall.fn = "get_maven_release_date" =>
      /\ \A j \in 1..Len(rlog) :
           /\ \A n \in 1..(MavenReleaseTier(rlog[j].pos) - 1) :
                 \E h \in 1..(j - 1) : MavenReleaseTier(rlog[h].pos) = n
           /\ \A h \in 1..(j - 1) :
                 /\ MavenReleaseTier(rlog[h].pos) <= MavenReleaseTier(rlog[j].pos)
                 /\ rlog[h].resp.kind # "hit"
      /\ rpc = "returned" /\ rlog # <<>> =>
           rret.value = IF rlog[Len(rlog)].pos = "mg_get" THEN None
                        ELSE LastResponse.value

\* the Google mirror gave the date after the search and repo1 gave none
C6_Witness ==
    /\ rcall.fn = "get_maven_release_date"
    /\ rpc = "returned"
    /\ rret.value # None
    /\ {"search", "repo1_head", "repo1_get", "gdl_head", "mg_head"}
          \subseteq Positions(rlog)

GooglePositions == {"p_gdl", "p_mg_meta", "p_mg_dir", "gdl", "mg_meta", "mg_dir"}

PriorityCall ==
    rcall.fn = "get_latest_maven_version" /\ use_google_first(rcall.group)

\* C7 as stated: for a com.google / androidx group no repo1 request and no
\* registry-search request is made before the Google mirror's metadata file
\* and directory listing are requested.
C7_GoogleMirrorBeforeAnyOtherTier ==
    PriorityCall =>
      \A j \in 1..Len(rlog) :
         rlog[j].pos \in {"repo1_meta", "fallback"} =>
            \E h \in 1..(j - 1) : rlog[h].pos \in {"p_mg_meta", "p_mg_dir"}

\* C7 amended: for a com.google / androidx group the first request is repo1's
\* metadata; when it gives no version the Google mirror (index, metadata
\* file, directory listing) is asked next, and no registry-search request is
\* made before the Google mirror was asked.
C7_GoogleMirrorBeforeRegistrySearch ==
    PriorityCall =>
      /\ rlog # <<>> => rlog[1].pos = "repo1_meta"
      /\ Len(rlog) >= 2 => rlog[2].pos = "p_gdl"
      /\ \A j \in 1..Len(rlog) :
           rlog[j].pos = "fallback" =>
              {"p_gdl", "p_mg_meta"} \subseteq { rlog[h].pos : h \in 1..(j - 1) }

\* every mirror gave nothing and the artifact-name-only search was reached
C7_Witness ==
    /\ PriorityCall
    /\ rpc = "returned"
    /\ {"repo1_meta", "p_gdl", "p_mg_meta", "p_mg_dir", "fallback"}
          \subseteq Positions(rlog)

\* C8 as stated: for a group outside com.google / androidx the Google mirror
\* is asked only after a registry search on group and artifact gave nothing,
\* and the artifact-name-only search only after the Google mirror.
C8_GroupSearchBeforeGoogleMirror ==
    rcall.fn = "get_latest_maven_version" /\ ~use_google_first(rcall.group) =>
      \A j \in 1..Len(rlog) :
         /\ rlog[j].pos \in GooglePositions =>
               \E h \in 1..(j - 1) : rlog[h].pos = "central_search"
         /\ rlog[j].pos = "fallback" =>
               \E h \in 1..(j - 1) : rlog[h].pos \in GooglePositions

\* the tier a request of get_latest_maven_version belongs to
MavenLatestTier(pos) ==
    CASE pos = "repo1_meta" -> 1
      [] pos \in {"p_gdl", "p_mg_meta", "p_mg_dir"} -> 2
      [] pos \in {"gdl", "mg_meta", "mg_dir"} -> 3
      [] pos = "fallback" -> 4

Tier(pos) ==
    IF rcall.fn = "get_maven_release_date" THEN MavenReleaseTier(pos)
    ELSE IF rcall.fn = "get_latest_maven_version" THEN MavenLatestTier(pos)
    ELSE 1

\* the tiers the called resolver has for the called coordinate
Tiers ==
    IF rcall.fn = "get_maven_release_date" THEN {1, 2, 3}
    ELSE IF rcall.fn = "get_latest_maven_version"
    THEN IF use_google_first(rcall.group) THEN {1, 2, 3, 4} ELSE {1, 3, 4}
    ELSE {1}

TierAfter(n) == IF \E m \in Tiers : m > n
                THEN Some(CHOOSE m \in Tiers : m > n /\ \A o \in Tiers : o > n => m <= o)
                ELSE None

\* C9: no resolver raises; after a request that raised the chain goes on in
\* the same tier or with the next one, never ends before the last tier, and
\* a chain in which every tier failed returns None after asking every tier.
C9_TierFailureNeverRaisesNorStopsChain ==
    /\ rpc # "raised"
    /\ \A j \in 1..Len(rlog) :
         rlog[j].resp.kind = "exc" =>
            LET after == TierAfter(Tier(rlog[j].pos))
                onward == {Tier(rlog[j].pos)} \cup after
            IN  IF j < Len(rlog)
                THEN Tier(rlog[j + 1].pos) \in onward
                ELSE IF rpc = "returned"
                THEN after = None /\ rret.value = None
                ELSE Tier(rpc) \in onward
    /\ rpc = "returned" /\ rlog # <<>> /\ LastResponse.kind \notin {"hit", "blank"} =>
         /\ rret.value = None
         /\ { Tier(rlog[j].pos) : j \in 1..Len(rlog) } = Tiers

\* every request of a priority-group lookup raised, and None came back
C9_Witness ==
    /\ PriorityCall
    /\ rpc = "returned"
    /\ rret.value = None
    /\ Len(rlog) >= 4
    /\ \A j \in 1..Len(rlog) : rlog[j].resp.kind = "exc"

(***************************************************************************)
(* Worker tasks that raise, checked under SpecFault.                       *)
(***************************************************************************)

\* C10 as stated: a component whose Phase-1 task raised gets no alarm, and an
\* alarm whose Phase-2 task raised is still printed, without annotation;
\* the other components' lines are printed all the same.
C10_RaisedTaskBecomesNullResult ==
    pc \in {"save", "done"} =>
      /\ \A i \in DOMAIN t1 : t1[i] = "raised" => AlarmOf(i) = {}
      /\ \A k \in DOMAIN t2 :
           \E l \in Range(output) :
              /\ l.i = alarms[k].i
              /\ t2[k].st = "raised" => l.update = NoUpdate

(***************************************************************************)
(* The caches within one run and across runs, checked under Spec.          *)
(***************************************************************************)
ReleaseKeyOf(i) == _make_release_cache_key(work_items[i].coord.type, work_items[i])

\* C11 as stated: in one run, whatever the interleaving of the Phase-1
\* workers, a release-date resolver is called for at most one of the
\* components that share a release cache key.
C11_ReleaseLookupOncePerKey ==
    \A i, j \in release_lookups : ReleaseKeyOf(i) = ReleaseKeyOf(j) => i = j

\* C12 as stated: in one run with a single worker the latest-version resolver
\* is called for at most one of the aged components that share a latest key.
C12_LatestLookupOncePerKey ==
    max_workers = 1 =>
       \A i, j \in latest_lookups :
          LatestKey(work_items[i]) = LatestKey(work_items[j]) => i = j

\* the date the cache file held under component i's release key when the
\* run loaded it (the file is rewritten only at the end of the run)
LoadedDate(i) ==
    IF UsesCache /\ ReleaseKeyOf(i) \in DOMAIN disk
       /\ disk[ReleaseKeyOf(i)].kind = "release"
    THEN disk[ReleaseKeyOf(i)].date
    ELSE None

\* C13: in every run with the persistent cache enabled, a component whose
\* release key had a date in the loaded cache file gets exactly that date as
\* its result, and no release-date resolver is called for it.
C13_PersistentReleaseHitIsTrusted ==
    pc \in {"phase1", "phase2", "save", "crashed"} =>
       \A i \in DOMAIN work_items :
          LoadedDate(i) # None =>
             /\ i \notin release_lookups
             /\ \A r \in Range(results) :
                  r.i = i =>
                     /\ r.rd # None
                     /\ The(r.rd).t = The(LoadedDate(i)).text
                     /\ The(r.rd).aware = (The(LoadedDate(i)).offset # "")

\* a second run, with the registries reachable, has answered a component
\* from the date the first run saved
C13_Witness ==
    /\ run = 2
    /\ ~netDown
    /\ pc = "save"
    /\ \E r \in Range(results) :
         /\ LoadedDate(r.i) # None
         /\ r.rd # None
         /\ The(r.rd).t % TicksPerDay # 0
         /\ r.i \notin release_lookups

LatestEntries == { key \in DOMAIN persistent_cache : key.k = "latest" }

C15_MavenReleaseDateIsTagged ==
    (rcall.fn = "get_maven_release_date" /\ rpc = "returned" /\ rret.value # None)
       => rret.src # None

\* C15 amended: a release-date resolver returns the date alone, without a
\* source tag, whichever tier produced it; only get_latest_maven_version
\* returns the tag of the tier that answered.
C15_OnlyMavenLatestIsTagged ==
    rpc = "returned" =>
       IF rcall.fn = "get_latest_maven_version"
       THEN LastResponse.kind \in {"hit", "blank"} <=> rret.src # None
       ELSE rret.src = None

\* the Google mirror produced a release date, returned without a tag
C15_Witness ==
    /\ rcall.fn = "get_maven_release_date"
    /\ rpc = "returned"
    /\ rlog # <<>>
    /\ rlog[Len(rlog)].pos = "gdl_head"
    /\ rret.value # None
    /\ rret.src = None

(***************************************************************************)
(* Aggregation, the worker pools and the report, checked under Spec.       *)
(***************************************************************************)

\* C16 as stated: the annotation of an alarm does not depend on the order in
\* which the worker tasks complete; it is the one that the component's own
\* version and its own latest-version result give, also when another
\* component of the same coordinate has completed before it.
C16_AnnotationIndependentOfCompletionOrder ==
    (pc \in {"save", "done"} /\ run = 1) =>
       \A n \in DOMAIN output :
          LET r == latest_results[n]
              item == work_items[r.i]
              own == compare_versions(Some(item.version), r.latest, item.coord.type)
          IN  (r.latest # None /\ The(r.latest) # item.version) =>
                 (output[n].update # NoUpdate <=> own # Some(FALSE))

\* the tasks a worker thread is executing
Running1 == { i \in DOMAIN t1 : t1[i] = "lookup" }
Running2 == { k \in DOMAIN t2 : t2[k].st = "resolve" }

\* a step in which a resolver is called or a registry answers
ResolverCalled ==
    \/ release_lookups' \ release_lookups # {}
    \/ latest_lookups' \ latest_lookups # {}
    \/ registry' # registry

\* a step of a running worker task that ends the task
WorkerStep ==
    \/ pc = "phase1" /\ \E i \in Running1 : t1'[i] = "done"
    \/ pc = "phase2" /\ \E k \in Running2 : t2'[k].st = "done"

\* C17: in either phase at most max_workers tasks execute at any moment, and
\* a resolver is called only by a step of an executing worker task.
C17_AtMostMaxWorkersAndOnlyInWorkers ==
    /\ [](/\ Cardinality(Running1) <= max_workers
          /\ Cardinality(Running2) <= max_workers)
    /\ [][ResolverCalled => WorkerStep]_vars

\* the pool is full and a submitted task waits in the queue
C17_Witness ==
    /\ pc = "phase1"
    /\ Cardinality(Running1) = max_workers
    /\ \E i \in DOMAIN t1 : t1[i] = "queued"

\* the verdict recorded for a component's coordinate: TRUE, FALSE or absent
Verdict(item) ==
    IF LatestKey(item) \in DOMAIN persistent_cache
    THEN persistent_cache[LatestKey(item)].newer
    ELSE None

\* C18: an ALARM line carries UPDATE_AVAILABLE, naming the latest version,
\* exactly when the component's Phase-2 result holds a latest that differs
\* from its version and the recorded verdict is newer or absent; a lone aged
\* maven component at 1.0.0 whose resolver answers 2.0.0 is annotated with
\* 2.0.0.
C18_UpdateAnnotationFollowsVerdict ==
    pc \in {"save", "done"} =>
       /\ \A n \in DOMAIN output :
            LET r == latest_results[n]
                item == work_items[r.i]
                line == output[n]
            IN  /\ line.i = r.i
                /\ line.update # NoUpdate <=>
                      /\ r.latest # None
                      /\ The(r.latest) # item.version
                      /\ Verdict(item) # Some(FALSE)
                /\ line.update # NoUpdate =>
                      The(line.update).latest = The(r.latest)
       /\ (/\ Len(sbom) = 1
           /\ sbom[1] = Purl(Item(CoordExample, V100))
           /\ alarms # <<>>
           /\ LatestQuery(CoordExample) \in DOMAIN registry
           /\ registry[LatestQuery(CoordExample)].latest = Some(V200)
           /\ (run = 1 \/ ~netDown))
          => \E l \in Range(output) : l.update # NoUpdate /\ The(l.update).latest = V200

\* the lone maven component has been reported with its update
C18_Witness ==
    /\ pc = "done"
    /\ sbom = <<Purl(Item(CoordExample, V100))>>
    /\ output = <<[i |-> 1, age_days |-> MaxAge + 1,
                   update |-> Update(V200, Some("repo1"))]>>

\* (checked under SpecAhead)
\* C33: an ALARM line carries UPDATE_AVAILABLE only if the latest version it
\* names is newer than, or not comparable with, the version of the component
\* the line is about, whoever wrote the verdict stored under the coordinate.
C33_UpdateOnlyIfNewerThanOwnVersion ==
    pc \in {"save", "done"} =>
       \A n \in DOMAIN output :
          LET item == work_items[output[n].i]
          IN  output[n].update # NoUpdate =>
                 compare_versions(Some(item.version),
                                  Some(The(output[n].update).latest),
                                  item.coord.type) # Some(FALSE)

\* (C34 and C36 are checked under SpecSeeded)
\* a maven coordinate whose group begins with com.google or androidx
InPriorityGroup(coord) ==
    /\ coord.type = Maven
    /\ \E n \in 1..Len(coord.group) : SubSeq(coord.group, 1, n) \in PriorityGroups

\* the Phase-2 tasks that found a latest value in a cache, and the result a
\* finished task appended for its work item
FoundCached ==
    { k \in DOMAIN t2 : /\ pc \in {"phase2", "save", "done"}
                        /\ t2[k].st \in {"resolve", "done"}
                        /\ t2[k].latest # None }
LatestResult(k) == latest_results[CHOOSE n \in LatestResultsOf(alarms[k].i) : TRUE].latest

\* C34: a task for a maven coordinate of a priority group that finds a
\* cached latest value with no source or with source central-fallback calls
\* the latest-version resolver again and keeps only what the call returns
\* (nothing when the registry is unreachable); a task for any other
\* coordinate that finds a cached latest value calls no resolver and keeps
\* the cached value.
C34_PriorityRefreshElseCacheSuppresses ==
    \A k \in FoundCached :
       LET item == work_items[alarms[k].i]
           done == t2[k].st = "done"
           query == LatestQuery(item.coord)
           answered == query \in DOMAIN registry
       IN  /\ InPriorityGroup(item.coord)
                /\ t2[k].src \in {None, Some("central-fallback")}
              => (done =>
                   /\ alarms[k].i \in latest_lookups
                   /\ netDown => LatestResult(k) = None
                   /\ LatestResult(k) # None =>
                         answered /\ registry[query].latest = LatestResult(k))
           /\ ~InPriorityGroup(item.coord)
              => (done =>
                   /\ alarms[k].i \notin latest_lookups
                   /\ LatestResult(k) \in {None, t2[k].latest})

\* a priority-group component whose cached latest value came from the
\* artifact-name-only search, or has no source, was resolved again while
\* the registries were unreachable, and another coordinate's cached value
\* was used without a call
C34_Witness ==
    /\ \E k \in FoundCached :
          /\ InPriorityGroup(work_items[alarms[k].i].coord)
          /\ t2[k].src \in {None, Some("central-fallback")}
          /\ t2[k].st = "done"
          /\ netDown
    /\ \E k \in FoundCached :
          /\ ~InPriorityGroup(work_items[alarms[k].i].coord)
          /\ t2[k].st = "done"
          /\ LatestResult(k) = t2[k].latest

\* a Phase-2 task has left the queue, or is leaving it in this step
Phase2Started == \E k \in DOMAIN t2 : t2[k].st # "queued"
Phase2Step ==
    \/ t2' # t2 /\ pc' = "phase2" /\ pc = "phase2"
    \/ latest_lookups' \ latest_lookups # {}
    \/ latest_results' # latest_results /\ latest_results' # <<>>

\* C35: while a Phase-1 task is unfinished no Phase-2 task exists, starts or
\* calls a resolver; and from the moment Phase 2 begins until the report the
\* alarm candidates, and the Phase-1 results they were taken from, stay as
\* they are.
C35_PhaseBarrier ==
    /\ []((\E i \in DOMAIN t1 : ~Finished(t1[i])) => t2 = <<>> /\ pc = "phase1")
    /\ [][Phase2Step => \A i \in DOMAIN t1 : t1[i] \in {"done", "raised"}]_vars
    /\ [][pc = "phase2" =>
            /\ alarms' = alarms
            /\ results' = results
            /\ t1' = t1
            /\ DOMAIN t2' = DOMAIN alarms]_vars

\* two Phase-1 tasks have finished and a Phase-2 task is calling a resolver
C35_Witness ==
    /\ pc = "phase2"
    /\ Len(t1) = MaxComps
    /\ \A i \in DOMAIN t1 : Finished(t1[i])
    /\ \E k \in DOMAIN t2 : t2[k].st = "resolve" /\ t2[k].need

\* C36: without check_updates nothing of the cache file enters the run
\* (the in-memory cache is empty when Phase 1 begins, and no cached release
\* date or latest value is found) and the file is never changed; with
\* check_updates and a cache file, the file changes only in the save step
\* that follows the report, when every Phase-2 task has finished.
C36_CacheFileOnlyWithCheckUpdates ==
    /\ [](~check_updates /\ pc = "phase1" => persistent_cache = EmptyMap)
    /\ [][~check_updates => disk' = disk]_vars
    /\ [][disk' # disk =>
            /\ check_updates /\ cache_file # None
            /\ pc = "save"
            /\ \A k \in DOMAIN t2 : t2[k].st \in {"done", "raised"}
            /\ output' = output]_vars

\* a run without check_updates has ended next to a cache file that holds a
\* latest entry for its first component, and reported an alarm for it
C36_Witness ==
    /\ pc = "done"
    /\ ~check_updates
    /\ cache_file # None
    /\ disk \in SeededDisks(work_items)
    /\ \E n \in DOMAIN output : output[n].i = 1

(***************************************************************************)
(* Errors of the cache file and of the SBOM file, checked under Spec.      *)
(***************************************************************************)

\* the cache file the run loaded holds a member that is not an entry
CorruptCacheLoaded ==
    /\ UsesCache
    /\ \E key \in DOMAIN disk : disk[key].kind = "junk"

\* C19 as stated: a run that loaded a corrupt cache file goes on as a run
\* without cache file does: no Phase-1 task fails and every component gets
\* its release-date result, hence the same alarms.
C19_CorruptCacheIsAnEmptyCache ==
    (run = 1 /\ Collected /\ CorruptCacheLoaded) =>
       \A i \in DOMAIN work_items :
          /\ t1[i] # "raised"
          /\ \E r \in Range(results) : r.i = i

\* C20 as stated: with an SBOM file that is missing or not JSON the run
\* exits at once, before any resolver is called and before the cache file is
\* written; with any other input the run ends neither by exit nor by an
\* uncaught exception.
C20_OnlyUnreadableSbomIsFatal ==
    /\ sbom_file # "ok" =>
          /\ pc \in {"start", "exit1"}
          /\ release_lookups = {}
          /\ latest_lookups = {}
          /\ registry = EmptyMap
          /\ history = <<>>
    /\ sbom_file = "ok" => pc \notin {"exit1", "crashed"}

\* the HEAD requests of the repo1 tier and of the Google tier, and the GET of
\* the same descriptor ("gdl_get" is a request the resolver never makes)
HeadRequests == {"repo1_head", "gdl_head", "mg_head"}
GetOf(pos) ==
    CASE pos = "repo1_head" -> "repo1_get"
      [] pos = "gdl_head" -> "gdl_get"
      [] pos = "mg_head" -> "mg_get"

\* C31: in the repo1 tier and in the Google tier alike, a HEAD response
\* without a usable Last-Modified header is followed by a GET of the same
\* descriptor, and a Last-Modified header on the GET response is the
\* release date returned.
C31_HeadThenGetOfSameDescriptor ==
    rcall.fn = "get_maven_release_date" =>
      \A j \in 1..Len(rlog) :
        rlog[j].pos \in HeadRequests /\ rlog[j].resp.kind \in {"miss", "empty"} =>
          IF j = Len(rlog)
          THEN rpc = GetOf(rlog[j].pos)
          ELSE /\ rlog[j + 1].pos = GetOf(rlog[j].pos)
               /\ rlog[j + 1].resp.kind = "hit" =>
                     /\ rpc = "returned"
                     /\ rret.value = rlog[j + 1].resp.value

\* C31, restricted to the repo1 tier and to the maven.google.com descriptor
\* after a 200 HEAD: the GET of the same descriptor follows
C31_GetFollowsHead ==
    rcall.fn = "get_maven_release_date" =>
      \A j \in 1..Len(rlog) :
        /\ \/ rlog[j].pos = "repo1_head" /\ rlog[j].resp.kind \in {"miss", "empty"}
           \/ rlog[j].pos = "mg_head" /\ rlog[j].resp.kind = "empty"
        => IF j = Len(rlog) THEN rpc = GetOf(rlog[j].pos)
           ELSE rlog[j + 1].pos = GetOf(rlog[j].pos)

\* the header of the maven.google.com GET response is dropped
C31_GoogleGetHeaderDropped ==
    /\ rcall.fn = "get_maven_release_date"
    /\ rpc = "returned"
    /\ rlog # <<>>
    /\ rlog[Len(rlog)].pos = "mg_get"
    /\ LastResponse.kind = "hit"
    /\ rret.value = None

(***************************************************************************)
(* Claims about parse_purl, _is_semver_like, compare_versions and the      *)
(* retrying session, checked under SpecHelpers.                            *)
(***************************************************************************)
Parsed == fin.fn = "parse_purl" /\ fret.state = "returned"

HasChar(str, c) == \E i \in 1..Len(str) : str[i] = c

\* the path segments of a PURL: between the scheme and the first '@'
PathSegments(purl) ==
    Split(SplitOnce(SubSeq(purl, Len(PkgPrefix) + 1, Len(purl)), "@")[1], "/")

\* a maven PURL whose path has no group segment or no artifact segment
MavenSegmentMissing(purl) ==
    /\ StartsWith(purl, PkgPrefix \o Maven)
    /\ LET segs == PathSegments(purl)
       IN  /\ segs[1] = Maven
           /\ \/ Len(segs) = 1
              \/ Len(segs) = 2 /\ ~HasChar(segs[2], ":")

Malformed(purl) ==
    \/ ~StartsWith(purl, PkgPrefix)
    \/ ~HasChar(purl, "@")
    \/ MavenSegmentMissing(purl)

\* C21: parse_purl returns None for every malformed input: a string without
\* the pkg: prefix, a string without '@', and a maven PURL that lacks a group
\* segment or an artifact segment.
C21_MalformedPurlYieldsNone ==
    Parsed /\ Malformed(fin.purl) => fret.value = None

\* the version of a PURL without its ?qualifiers and #subpath
Plain(v) ==
    LET marks == { i \in 1..Len(v) : v[i] \in {"?", "#"} }
    IN  IF marks = {} THEN v
        ELSE SubSeq(v, 1, (CHOOSE i \in marks : \A j \in marks : i <= j) - 1)

\* C23: for every group g, artifact a and version v, pkg:maven/g/a@v and
\* pkg:maven/g:a@v parse to the same group g, artifact a and version.
C23_SlashAndCompactFormAgree ==
    Parsed =>
      \A g \in PGroups, a \in PArtifacts, v \in PVersions :
        fin.purl \in {SlashForm(g, a, v), CompactForm(g, a, v)} =>
          /\ fret.value # None
          /\ The(fret.value).type = Maven
          /\ The(fret.value).group = g
          /\ The(fret.value).artifact = a
          /\ The(fret.value).version = Plain(v)

C23_Witness ==
    /\ Parsed
    /\ fin.purl = CompactForm(GroupExample, NameLib, <<"1", "?", "x">>)
    /\ fret.value # None
    /\ The(fret.value).group = GroupExample

\* percent-decoding of the escapes of this model: %40 is '@' and %2F is '/'
RECURSIVE Unquote(_)
Unquote(str) ==
    IF Len(str) = 0 THEN <<>>
    ELSE IF Len(str) >= 3 /\ SubSeq(str, 1, 3) = <<"%", "4", "0">>
    THEN <<"@">> \o Unquote(SubSeq(str, 4, Len(str)))
    ELSE IF Len(str) >= 3 /\ SubSeq(str, 1, 3) = <<"%", "2", "F">>
    THEN <<"/">> \o Unquote(SubSeq(str, 4, Len(str)))
    ELSE <<Head(str)>> \o Unquote(Tail(str))

\* C24: for a PURL that is not maven, parse_purl joins the path segments after
\* the type and percent-decodes them: pkg:npm/%40s%2Fn/p@2.0.0 has type npm,
\* name @s/n/p and version 2.0.0.
C24_OtherNameIsJoinedAndDecoded ==
    Parsed /\ fret.value # None /\ The(fret.value).type # Maven =>
      /\ The(fret.value).name =
            Unquote(Join(Tail(PathSegments(fin.purl)), "/"))
      /\ fin.purl = PurlNpmEncoded =>
            /\ The(fret.value).type = Npm
            /\ The(fret.value).name = <<"@", "s", "/", "n", "/", "p">>
            /\ The(fret.value).version = V200

Classified == fin.fn = "_is_semver_like" /\ fret.state = "returned"

\* digit groups separated by single dots
DigitGroups(h) ==
    /\ Len(h) > 0
    /\ \A i \in 1..Len(h) : h[i] \in Digits \cup {"."}
    /\ h[1] # "." /\ h[Len(h)] # "."
    /\ \A i \in 1..(Len(h) - 1) : ~(h[i] = "." /\ h[i + 1] = ".")

\* digit groups, optionally followed by one suffix introduced by '-' or '+'
VersionShaped(str) ==
    \E k \in 1..Len(str) :
      /\ DigitGroups(SubSeq(str, 1, k))
      /\ \/ k = Len(str)
         \/ /\ k + 1 < Len(str)
            /\ str[k + 1] \in {"-", "+"}
            /\ \A i \in (k + 2)..Len(str) :
                 str[i] \in Digits \cup Letters \cup Capitals \cup {".", "-"}

\* C25: _is_semver_like(v) is true if and only if v is a string of digit
\* groups separated by dots, optionally followed by one suffix introduced by
\* '-' or '+'; a null or non-string value is rejected.
C25_SemverLikeIffVersionShaped ==
    Classified =>
      (fret.value <=> (fin.type = "str" /\ VersionShaped(fin.v)))

Compared == fin.fn = "compare_versions" /\ fret.state = "returned"

HasDigit(v) == v # None /\ \E i \in 1..Len(The(v)) : The(v)[i] \in Digits
Missing(v) == v = None \/ The(v) = <<>>

\* C26 as stated: compare_versions returns None only if both strings are
\* fully non-numeric; when at least one of them contains a digit the result
\* is a definite verdict.
C26_UnknownOnlyWithoutDigits ==
    Compared =>
      /\ fret.value = None => ~HasDigit(fin.current) /\ ~HasDigit(fin.latest)
      /\ HasDigit(fin.current) \/ HasDigit(fin.latest) => fret.value # None

\* C26 as amended: compare_versions returns None exactly when the current or
\* the latest string is missing (None or empty); for two non-empty strings the
\* result is a definite verdict, also when neither contains a digit.
C26_UnknownIffAnArgumentIsMissing ==
    Compared =>
      (fret.value = None <=> Missing(fin.current) \/ Missing(fin.latest))

C26_Witness ==
    /\ Compared
    /\ fin.current = Some(<<"a">>)
    /\ fin.latest = Some(<<"a", ".", "a">>)
    /\ fret.value = Some(TRUE)

\* the number of a segment: its digits read as one number, 0 without digits
RECURSIVE SegmentNumber(_, _)
SegmentNumber(seg, acc) ==
    IF seg = <<>> THEN acc
    ELSE SegmentNumber(Tail(seg),
             IF Head(seg) \in Digits THEN 10 * acc + DigitVal(Head(seg)) ELSE acc)

Numbers(v) ==
    LET segs == Split(v, ".")
    IN  [i \in 1..Len(segs) |-> SegmentNumber(segs[i], 0)]

\* C27: when no strong parser accepts the pair, the dot-separated segments
\* are compared as numbers from left to right (the digits of a segment as its
\* number, 0 without digits); the first differing segment decides, and when
\* all shared segments are equal the longer sequence is the newer one.
C27_DottedFallback ==
    Compared /\ ~Missing(fin.current) /\ ~Missing(fin.latest)
      /\ ~(StrongParses(The(fin.current)) /\ StrongParses(The(fin.latest)))
      /\ ~(/\ fin.pkg_type = <<"p", "y", "p", "i">>
           /\ PackagingParses(The(fin.current))
           /\ PackagingParses(The(fin.latest))) =>
        LET lat == Numbers(The(fin.latest))
            cur == Numbers(The(fin.current))
            shared == 1..Min(Len(lat), Len(cur))
        IN  /\ \A k \in shared :
                 (lat[k] # cur[k] /\ \A j \in 1..(k - 1) : lat[j] = cur[j]) =>
                    fret.value = Some(lat[k] > cur[k])
            /\ (\A k \in shared : lat[k] = cur[k]) =>
                    fret.value = Some(Len(lat) > Len(cur))

C27_Witness ==
    /\ Compared
    /\ fin.current = Some(<<"1", "a", "2">>)
    /\ fin.latest = Some(<<"1", "2", ".">>)
    /\ fret.value = Some(TRUE)

\* C37: in every ecosystem compare_versions never finds a version newer
\* than itself, and never finds each of two versions newer than the other.
C37_IrreflexiveAndAsymmetric ==
    Compared =>
      /\ fin.current = fin.latest => fret.value # Some(TRUE)
      /\ fret.value = Some(TRUE) =>
            compare_versions(fin.latest, fin.current, fin.pkg_type) # Some(TRUE)

\* for pypi the final release 1 is newer than its pre-release 1a, which the
\* dotted comparison would take for equal
C37_Witness ==
    /\ Compared
    /\ fin.pkg_type = <<"p", "y", "p", "i">>
    /\ fin.current = Some(<<"1", "a">>)
    /\ fin.latest = Some(<<"1">>)
    /\ fret.value = Some(TRUE)
    /\ compare_versions(fin.latest, fin.current, fin.pkg_type) = Some(FALSE)
    /\ compare_versions(fin.current, fin.latest, Npm) = Some(FALSE)

Requested == fin.fn = "request" /\ fret.state # "none"

\* the responses after which the request was sent again
Resent ==
    { i \in 1..Len(fret.log) : i < Len(fret.log) \/ fret.state = "waiting" }

WellFormed(purl) == StartsWith(purl, PkgPrefix) /\ HasChar(purl, "@")

\* the SBOM without the components whose PURL does not parse
WithoutMalformed(components) == SelectSeq(components, WellFormed)

Started == pc \notin {"start", "exit1"}

\* C22: a component whose PURL cannot be parsed is skipped without aborting
\* the run: the work items are the other components, in their order, as if
\* the malformed component were absent, and when phase 1 is over each of them
\* has a result (or its task raised).
C22_MalformedComponentIsSkipped ==
    Started =>
      /\ [i \in DOMAIN work_items |-> Purl(work_items[i])]
             = NotIgnored(WithoutMalformed(sbom), ignore_file)
      /\ DOMAIN t1 = DOMAIN work_items
      /\ Collected =>
           \A i \in DOMAIN work_items :
             \/ \E r \in Range(results) : r.i = i
             \/ t1[i] = "raised"

C22_Witness ==
    /\ sbom = << NotAPurl, Purl(Item(CoordExample, V100)) >>
    /\ pc = "done"
    /\ \E a \in Range(alarms) : work_items[a.i] = Item(CoordExample, V100)

\* the components that a literal entry of the ignore file names
LiterallyIgnored ==
    { i \in DOMAIN sbom :
        \E e \in Range(ignore_file) : e.kind = "purl" /\ e.purl = sbom[i] }

\* C29: a component whose PURL exactly matches a literal entry of the ignore
\* list is reported as IGNORED and produces no alarm, whatever its age: it is
\* no work item, so no release date is looked up for it.
C29_LiterallyIgnoredComponentNeverAlarms ==
    Started =>
      \A i \in LiterallyIgnored :
        /\ sbom[i] \in Range(ignored)
        /\ \A w \in DOMAIN work_items : Purl(work_items[w]) # sbom[i]
        /\ \A a \in Range(alarms) : Purl(work_items[a.i]) # sbom[i]

C29_Witness ==
    /\ pc = "done"
    /\ sbom = << Purl(Item(CoordExample, V100)), Purl(Item(CoordExample, V200)) >>
    /\ LiterallyIgnored = {1}
    /\ ignored = << Purl(Item(CoordExample, V100)) >>
    /\ \E a \in Range(alarms) : work_items[a.i] = Item(CoordExample, V200)

\* the maven work items whose version is empty or 'unspecified' in any case
UnspecifiedItems ==
    { i \in DOMAIN work_items :
        /\ work_items[i].coord.type = Maven
        /\ work_items[i].version \in {<<>>, Unspecified, VUnspecified} }

\* C30: a maven component whose version is 'unspecified' (in any case) or
\* empty is left unresolved: no release-date resolver is called for it, no
\* registry is asked about it, it is never an alarm candidate, and the run
\* goes on with the other components.
C30_UnspecifiedMavenVersionIsUnresolved ==
    Started =>
      \A i \in UnspecifiedItems :
        /\ i \notin release_lookups
        /\ ReleaseQuery(work_items[i].coord, work_items[i].version)
              \notin DOMAIN registry
        /\ AlarmOf(i) = {}
        /\ \A r \in Range(results) :
             \* unless the cache file already held a date under its key
             (/\ r.i = i
              /\ \A e \in Get(persistent_cache,
                               _make_release_cache_key(Maven, work_items[i])) :
                    e.kind = "release" /\ e.date = None)
                => r.rd = None

C30_Witness ==
    /\ pc = "done"
    /\ sbom = << Purl(Item(CoordExample, VUnspecified)),
                 Purl(Item(CoordExample, V100)) >>
    /\ UnspecifiedItems = {1}
    /\ \E r \in Range(results) : r.i = 1 /\ r.rd = None
    /\ \E a \in Range(alarms) : a.i = 2

=============================================================================
